---------------------------- MODULE Spec2Model ----------------------------
(***************************************************************************)
(* A model of qoolqit's unit converter (qoolqit/devices), of the matrix    *)
(* embedder facade (qoolqit/embedding), of the BLADE interaction-force     *)
(* kernels, scale computation and round scheduler                          *)
(* (qoolqit/embedding/algorithms/blade), of the weighted detunings of a    *)
(* drive (qoolqit/execution), of the unit-disk edges and from_matrix of    *)
(* graphs (qoolqit/graphs), of the rounding of waveform durations          *)
(* (qoolqit/waveforms), of the compilation of a quantum program            *)
(* (qoolqit/quantum_program.py, qoolqit/execution) and of the remote job   *)
(* of a backend (qoolqit/_solvers/backends).                               *)
(*                                                                         *)
(* Numbers.  The code computes with IEEE doubles.  The model computes with *)
(* exact extended rationals <<n, d>> in lowest terms: d > 0 is the         *)
(* rational n/d, <<1, 0>> is +inf, <<-1, 0>> is -inf and <<0, 0>> is NaN.  *)
(* Rounding of the last bits of a double is therefore not modelled; every  *)
(* tolerance the code or the specification names (1e-9 relative, 1e-7      *)
(* absolute) is many orders of magnitude above it.                         *)
(***************************************************************************)
EXTENDS Integers, Sequences, FiniteSets, TLC

----------------------------------------------------------------------------
(* Extended rational arithmetic                                            *)

Abs(x) == IF x < 0 THEN -x ELSE x

Sgn(x) == IF x < 0 THEN -1 ELSE IF x > 0 THEN 1 ELSE 0

RECURSIVE GCD(_, _)
GCD(a, b) == IF b = 0 THEN a ELSE GCD(b, a % b)

\* n/d in lowest terms with a positive denominator; a zero denominator gives
\* the signed infinity (n # 0) or NaN (n = 0).
Norm(n, d) ==
    IF d = 0 THEN <<Sgn(n), 0>>
    ELSE LET g == GCD(Abs(n), Abs(d))
             s == Sgn(d)
         IN  <<(s * n) \div g, (s * d) \div g>>

R(n) == <<n, 1>>
Frac(n, d) == Norm(n, d)

PosInf == <<1, 0>>
NegInf == <<-1, 0>>
NaN == <<0, 0>>

IsNaN(a) == a = NaN
IsInf(a) == a[2] = 0 /\ a[1] # 0
IsFinite(a) == a[2] # 0

RSign(a) == Sgn(a[1])

RNeg(a) == <<-a[1], a[2]>>

RAbs(a) == <<Abs(a[1]), a[2]>>

RAdd(a, b) ==
    IF IsNaN(a) \/ IsNaN(b) THEN NaN
    ELSE IF IsInf(a) THEN (IF IsInf(b) /\ b # a THEN NaN ELSE a)
    ELSE IF IsInf(b) THEN b
    ELSE LET g == GCD(a[2], b[2])
         IN  Norm(a[1] * (b[2] \div g) + b[1] * (a[2] \div g), (a[2] \div g) * b[2])

RSub(a, b) == RAdd(a, RNeg(b))

\* The factors are cancelled crosswise before they are multiplied, so that
\* the intermediate products stay as small as the result.
RMul(a, b) ==
    IF IsNaN(a) \/ IsNaN(b) THEN NaN
    ELSE IF IsInf(a) \/ IsInf(b)
         THEN (IF a[1] = 0 \/ b[1] = 0 THEN NaN ELSE <<RSign(a) * RSign(b), 0>>)
    ELSE LET g1 == GCD(Abs(a[1]), b[2])
             g2 == GCD(Abs(b[1]), a[2])
         IN  Norm((a[1] \div g1) * (b[1] \div g2), (a[2] \div g2) * (b[2] \div g1))

\* 1/b with the IEEE conventions 1/0 = +inf and 1/inf = 0.
RInv(b) ==
    IF IsNaN(b) THEN NaN
    ELSE IF IsInf(b) THEN R(0)
    ELSE IF b[1] = 0 THEN PosInf
    ELSE Norm(b[2], b[1])

\* a/b with the IEEE conventions x/0 = +-inf, 0/0 = NaN, inf/inf = NaN.
RDiv(a, b) ==
    IF IsNaN(a) \/ IsNaN(b) THEN NaN
    ELSE IF IsInf(a) /\ IsInf(b) THEN NaN
    ELSE IF IsFinite(b) /\ b[1] = 0 THEN <<RSign(a), 0>>
    ELSE RMul(a, RInv(b))

\* Comparisons; every comparison with NaN is false, as for doubles.
RLt(a, b) ==
    /\ ~IsNaN(a) /\ ~IsNaN(b)
    /\ IF IsInf(a) \/ IsInf(b)
       THEN a # b /\ (a = NegInf \/ b = PosInf)
       ELSE a[1] * b[2] < b[1] * a[2]

RLe(a, b) == ~IsNaN(a) /\ ~IsNaN(b) /\ (a = b \/ RLt(a, b))

REq(a, b) == ~IsNaN(a) /\ a = b

RMax2(a, b) == IF RLt(a, b) THEN b ELSE a

RMin2(a, b) == IF RLt(b, a) THEN b ELSE a

RECURSIVE RPow(_, _)
RPow(a, k) == IF k = 0 THEN R(1) ELSE RMul(a, RPow(a, k - 1))


----------------------------------------------------------------------------
(* Unit converter: qoolqit/devices/unit_converter.py                       *)

\* Bound of the reference values the operations are called with.
MaxRef == 2

\* math.isclose's default rel_tol is 1e-9: the tolerance is 1/RelTolInv.
RelTolInv == 1000000000

\* The tolerance the specification names, 1e-7, is 1/AbsTolInv.
AbsTolInv == 10^7

Thousand == R(1000)

\* 4 * pi (UPPER_AMP), to four digits.
UPPER_AMP == Frac(6283, 500)

\* Interaction coefficients of the devices and converters.
C6Values == {R(1000), R(5420)}

\* The reference distances: -1, 0 and the wholes and halves up to MaxRef.
DistanceRefs == {R(-1), R(0)} \cup {Frac(n, d) : n \in 1..MaxRef, d \in {1, 2}}

\* The reference times and energies: the same, and 4 * pi.
RefValues == DistanceRefs \cup {UPPER_AMP}

\* A distance factor is either a double or, for the sixth root of a negative
\* number, a complex number.  A real distance x is carried exactly as its
\* sign and its sixth power: x = sgn * p6^(1/6).
Real6(sgn, p6) == [kind |-> "real", sgn |-> sgn, p6 |-> p6]
Complex6(q) == [kind |-> "complex", sgn |-> 0, p6 |-> q]

\* The double d as a distance.
Dist(d) == Real6(RSign(d), RPow(RAbs(d), 6))

\* q ** (1 / 6): the positive sixth root, complex for a negative q.
Root6(q) == IF RSign(q) < 0 THEN Complex6(q) ELSE Real6(RSign(q), q)

\* distance ** 6
Pow6(x) == x.p6

OkFactors(t, e, d) == [err |-> "none", f |-> <<t, e, d>>]
Raised(err) == [err |-> err, f |-> <<R(0), R(0), Dist(R(0))>>]

\* The slip a mutation of _factors_from_time makes: the energy is not derived.
factors_from_time_keeps_energy(C6, time) ==
    IF time = R(0) THEN Raised("ZeroDivisionError")
    ELSE OkFactors(time, Thousand, Root6(RDiv(C6, Thousand)))

factors_from_time(C6, time) ==
    IF time = R(0) THEN Raised("ZeroDivisionError")
    ELSE LET energy == RDiv(Thousand, time)
             distance == Root6(RDiv(C6, energy))
         IN  OkFactors(time, energy, distance)

factors_from_energy(C6, energy) ==
    IF energy = R(0) THEN Raised("ZeroDivisionError")
    ELSE LET time == RDiv(Thousand, energy)
             distance == Root6(RDiv(C6, energy))
         IN  OkFactors(time, energy, distance)

factors_from_distance(C6, distance) ==
    IF distance = R(0) THEN Raised("ZeroDivisionError")
    ELSE LET energy == RDiv(C6, distance)
         IN  IF energy = R(0) THEN Raised("ZeroDivisionError")
             ELSE OkFactors(RDiv(Thousand, energy), energy, Dist(distance))

\* The largest integer not above the finite a.
Floor(a) == a[1] \div a[2]

\* math.isclose(a, b): abs(a - b) <= rel_tol * max(abs(a), abs(b)), for finite
\* a and b.  The values are below 1/rel_tol, so the tolerance is below 1 and
\* two values whose integer parts differ by 2 or more are not close; for the
\* others, x * RelTolInv <= y is decided as x <= y \div RelTolInv.
isclose(a, b) ==
    \/ a = b
    \/ /\ Abs(Floor(a) - Floor(b)) <= 1
       /\ LET m == RMax2(RAbs(a), RAbs(b))
              q == RDiv(RAbs(RSub(a, b)), m)
          IN  q[1] <= q[2] \div RelTolInv

\* A validation that checks the time-energy invariant alone.
validate_factors_time_only(C6, time, energy, distance) ==
    IF ~isclose(RMul(time, energy), Thousand) THEN "ValueError" ELSE "none"

\* UnitConverter._validate_factors: the error it raises, or "none".  The
\* energy-distance product of a complex distance is complex, and isclose
\* refuses a complex argument with a TypeError.
validate_factors(C6, time, energy, distance) ==
    IF ~isclose(RMul(time, energy), Thousand) THEN "ValueError"
    ELSE IF distance.kind = "complex" THEN "TypeError"
    ELSE IF ~isclose(RMul(Pow6(distance), energy), C6) THEN "ValueError"
    ELSE "none"

NoConv ==
    [exists |-> FALSE, C6 |-> R(0), time |-> R(0), energy |-> R(0),
     distance |-> Dist(R(0))]

MkConv(C6, f) ==
    [exists |-> TRUE, C6 |-> C6, time |-> f[1], energy |-> f[2], distance |-> f[3]]

\* UnitConverter.factors (getter)
factors(c) == <<c.time, c.energy, c.distance>>

\* UnitConverter(C6, time, energy, distance): the dataclass constructor and
\* __post_init__.  conv is the object built, when none is raised.
UnitConverter(C6, f) ==
    LET err == validate_factors(C6, f[1], f[2], f[3])
    IN  [err |-> err, conv |-> IF err = "none" THEN MkConv(C6, f) ELSE NoConv]

\* from_time / from_energy / from_distance: the factors, then the constructor.
FromFactors(C6, fr) ==
    IF fr.err # "none" THEN [err |-> fr.err, conv |-> NoConv]
    ELSE UnitConverter(C6, fr.f)

\* A setter that assigns before it validates.
factors_setter_unchecked(c, values) ==
    IF Len(values) # 3 THEN [err |-> "ValueError", conv |-> c]
    ELSE [err |-> validate_factors(c.C6, values[1], values[2], values[3]),
          conv |-> MkConv(c.C6, values)]

\* UnitConverter.factors (setter): c after `c.factors = values`.
factors_setter(c, values) ==
    IF Len(values) # 3 THEN [err |-> "ValueError", conv |-> c]
    ELSE LET err == validate_factors(c.C6, values[1], values[2], values[3])
         IN  [err |-> err, conv |-> IF err = "none" THEN MkConv(c.C6, values) ELSE c]

\* `c.factors = c.factors_from_X(v)`: nothing is assigned when the factors
\* computation raises.
SetFromFactors(c, fr) ==
    IF fr.err # "none" THEN [err |-> fr.err, conv |-> c]
    ELSE factors_setter(c, fr.f)


----------------------------------------------------------------------------
(* Devices: qoolqit/devices/device.py                                      *)

VARIABLES
    conv,   \* a UnitConverter the caller holds (NoConv: none yet)
    dev,    \* a Device the caller holds (NoDev: none yet)
    last,   \* the last call: its name, its arguments and the error it raised
    emb,    \* a call of an embedder: its input, its position and its outcome
    frc,    \* a call of a force kernel: its inputs and its outcome
    scl,    \* a call of the scale computation, or a distances calculator
    run,    \* an embedding run: its schedule and the steps it has made
    drv,    \* a weighted detuning on its way into a drive and a sequence
    gph,    \* a graph and the unit-disk calls made on it, or a from_matrix call
    rnd,    \* a call of round_to_sum: its values and what it returned
    prg,    \* a QuantumProgram: whether it is compiled, and its last call
    job     \* a RemoteJob somebody waits for, and the batch it polls

convVars == <<conv, dev, last>>

\* The graph, the rounding, the program and the job.
laterVars == <<gph, rnd, prg, job>>

\* The variables the converter and device operations leave alone.
convOthers == <<emb, frc, scl, run, drv, laterVars>>

\* The Pulser devices: interaction coefficient and the rydberg_global
\* channel's max_amp, R(0) for a channel without one (None).
PulserDevices == {[C6 |-> c, max_amp |-> a] : c \in C6Values, a \in {R(0), R(10)}}

\* 1000 + k * 5e-7
Near(k) == Frac(2 * 10^9 + k, 2 * 10^6)

\* What a caller assigns to factors or passes to the constructor: triples that
\* satisfy both invariants for C6, triples that miss one of them by 5e-7 or
\* by 2e-6 or more (C6 = 1000), triples that are far off, and a tuple of two.
DirectTuples(C6) ==
    {<<R(1), Thousand, Root6(RDiv(C6, Thousand))>>,
     <<R(2), R(500), Root6(RDiv(C6, R(500)))>>,
     <<R(2), R(500), Dist(R(1))>>,
     <<R(2), R(2), Dist(R(1))>>,
     <<Frac(1, 2), Frac(1, 2), Dist(Frac(1, 2))>>,
     <<Frac(1, 2), Frac(1, 2)>>}
    \cup (IF C6 = Thousand
          THEN {<<R(1), Near(1), Dist(R(1))>>,
                <<R(1), Near(4), Dist(R(1))>>,
                <<R(1), Thousand, Real6(1, Frac(2 * 10^9 + 1, 2 * 10^9))>>,
                <<R(1), Thousand, Real6(1, Frac(10^9 + 3, 10^9))>>}
          ELSE {})

\* initial: the factors the device had when __init__ returned.
NoDev ==
    [exists |-> FALSE, C6 |-> R(0), upper_amp |-> R(0),
     factory |-> [kind |-> "none", f |-> factors(NoConv)], converter |-> NoConv,
     initial |-> factors(NoConv)]

NoLast ==
    [op |-> "none", C6 |-> R(0), arg |-> R(0), values |-> <<>>, err |-> "none"]

Call(op, C6, arg, values, err) ==
    [op |-> op, C6 |-> C6, arg |-> arg, values |-> values, err |-> err]

\* Device._default_factory(): the snapshot of the caller's converter under the
\* device's own C6, or from_energy with the upper amplitude.
default_factory(C6, factory) ==
    IF factory.kind = "snapshot" THEN UnitConverter(C6, factory.f)
    ELSE FromFactors(C6, factors_from_energy(C6, factory.f[2]))

\* A reset that keeps the converter the device holds.
reset_converter_keeps(d) == [err |-> "none", conv |-> d.converter]

\* Device.reset_converter: the converter the device holds afterwards.
reset_converter(d) ==
    LET r == default_factory(d.C6, d.factory)
    IN  [err |-> r.err, conv |-> IF r.err = "none" THEN r.conv ELSE d.converter]

\* The caller first builds converters, then a device, and then works on the
\* device: the converter calls are taken while there is no device.

\* UnitConverter.from_time(C6, t), and likewise from_energy, from_distance.
\* A call that raises leaves the converter the caller holds as it was.
FromTime ==
    /\ ~dev.exists
    /\ \E C6 \in C6Values, t \in RefValues :
        LET r == FromFactors(C6, factors_from_time(C6, t))
        IN  /\ conv' = IF r.err = "none" THEN r.conv ELSE conv
            /\ last' = Call("from_time", C6, t, <<>>, r.err)
            /\ UNCHANGED <<dev, convOthers>>

FromEnergy ==
    /\ ~dev.exists
    /\ \E C6 \in C6Values, e \in RefValues :
        LET r == FromFactors(C6, factors_from_energy(C6, e))
        IN  /\ conv' = IF r.err = "none" THEN r.conv ELSE conv
            /\ last' = Call("from_energy", C6, e, <<>>, r.err)
            /\ UNCHANGED <<dev, convOthers>>

FromDistance ==
    /\ ~dev.exists
    /\ \E C6 \in C6Values, d \in DistanceRefs :
        LET r == FromFactors(C6, factors_from_distance(C6, d))
        IN  /\ conv' = IF r.err = "none" THEN r.conv ELSE conv
            /\ last' = Call("from_distance", C6, d, <<>>, r.err)
            /\ UNCHANGED <<dev, convOthers>>

\* UnitConverter(C6, time, energy, distance), called directly.
Construct ==
    /\ ~dev.exists
    /\ \E C6 \in C6Values :
        \E values \in {v \in DirectTuples(C6) : Len(v) = 3} :
            LET r == UnitConverter(C6, values)
            IN  /\ conv' = IF r.err = "none" THEN r.conv ELSE conv
                /\ last' = Call("UnitConverter", C6, R(0), values, r.err)
                /\ UNCHANGED <<dev, convOthers>>

\* conv.factors = values
AssignFactors ==
    /\ ~dev.exists
    /\ conv.exists
    /\ \E values \in DirectTuples(conv.C6) :
           LET r == factors_setter(conv, values)
           IN  /\ conv' = r.conv
               /\ last' = Call("factors", conv.C6, R(0), values, r.err)
               /\ UNCHANGED <<dev, convOthers>>

\* Device(pulser_device, default_converter): with the converter the caller
\* holds, or with none.  __init__ ends with reset_converter().  The caller
\* keeps no converter of its own once it holds a device.
NewDevice ==
    \E pd \in PulserDevices, given \in BOOLEAN :
        /\ ~dev.exists
        /\ given => conv.exists
        /\ LET upper == IF pd.max_amp = R(0) THEN UPPER_AMP ELSE pd.max_amp
               factory == IF given
                          THEN [kind |-> "snapshot", f |-> factors(conv)]
                          ELSE [kind |-> "from_energy",
                                f |-> <<R(0), upper, Dist(R(0))>>]
               r == default_factory(pd.C6, factory)
           IN  /\ dev' = IF r.err = "none"
                         THEN [exists |-> TRUE, C6 |-> pd.C6, upper_amp |-> upper,
                               factory |-> factory, converter |-> r.conv,
                               initial |-> factors(r.conv)]
                         ELSE dev
               /\ last' = Call("Device", pd.C6, R(0), <<>>, r.err)
               /\ conv' = IF r.err = "none" THEN NoConv ELSE conv
               /\ UNCHANGED convOthers

\* device.reset_converter().  The call is recorded with the factors the
\* device held before it.
ResetConverter ==
    /\ dev.exists
    /\ LET r == reset_converter(dev)
       IN  /\ dev' = [dev EXCEPT !.converter = r.conv]
           /\ last' = Call("reset_converter", dev.C6, R(0),
                            factors(dev.converter), r.err)
           /\ UNCHANGED <<conv, convOthers>>

SetTimeUnit ==
    /\ dev.exists
    /\ \E t \in RefValues :
           LET c == dev.converter
               r == SetFromFactors(c, factors_from_time(c.C6, t))
           IN  /\ dev' = [dev EXCEPT !.converter = r.conv]
               /\ last' = Call("set_time_unit", c.C6, t, <<>>, r.err)
               /\ UNCHANGED <<conv, convOthers>>

SetEnergyUnit ==
    /\ dev.exists
    /\ \E e \in RefValues :
           LET c == dev.converter
               r == SetFromFactors(c, factors_from_energy(c.C6, e))
           IN  /\ dev' = [dev EXCEPT !.converter = r.conv]
               /\ last' = Call("set_energy_unit", c.C6, e, <<>>, r.err)
               /\ UNCHANGED <<conv, convOthers>>

SetDistanceUnit ==
    /\ dev.exists
    /\ \E d \in DistanceRefs :
           LET c == dev.converter
               r == SetFromFactors(c, factors_from_distance(c.C6, d))
           IN  /\ dev' = [dev EXCEPT !.converter = r.conv]
               /\ last' = Call("set_distance_unit", c.C6, d, <<>>, r.err)
               /\ UNCHANGED <<conv, convOthers>>

----------------------------------------------------------------------------
(* Matrix embedders: qoolqit/embedding/matrix_embedder.py                  *)

\* Matrix entries are whole multiples of 1e-8.

\* Bound of the sides of the arrays an embedder is called with.
MaxN == 2

\* Bound of the length of the dimension schedules a configuration is given.
MaxRounds == 3

\* allclose's atol=1e-7, in units of 1e-8.
Atol == 10

\* 1.0, in units of 1e-8.
One == 10^8

\* BladeEmbeddingConfig.dimensions, the default.
DefaultDimensions == <<5, 4, 3, 2, 2, 2>>

\* BladeEmbeddingConfig.steps_per_round, the default.
DefaultStepsPerRound == 200

\* The index tuples of an array of the given shape.
Indices(shape) ==
    IF Len(shape) = 1 THEN {<<i>> : i \in 1..shape[1]}
    ELSE IF Len(shape) = 2 THEN {<<i, j>> : i \in 1..shape[1], j \in 1..shape[2]}
    ELSE {<<i, j, k>> : i \in 1..shape[1], j \in 1..shape[2], k \in 1..shape[3]}

\* A numpy array: its shape and its entries by index tuple.
ndarray(shape, at) == [type |-> "ndarray", shape |-> shape, at |-> at]

\* Something that is not a numpy array.
NotAnArray == [type |-> "DataGraph", shape |-> <<>>, at |-> <<>>]

\* data.T of a 2-D array.
transpose(a) ==
    ndarray(<<a.shape[2], a.shape[1]>>,
            [idx \in Indices(<<a.shape[2], a.shape[1]>>) |-> a.at[<<idx[2], idx[1]>>]])

\* numpy's broadcasting of two 2-D shapes: an axis of length 1 is stretched to
\* the other array's length; axes of other, different lengths do not match.
broadcastable(s, t) ==
    \A k \in 1..2 : s[k] = t[k] \/ s[k] = 1 \/ t[k] = 1

broadcast_shape(s, t) ==
    <<IF s[1] = 1 THEN t[1] ELSE s[1], IF s[2] = 1 THEN t[2] ELSE s[2]>>

\* The entry of a that a broadcast to a larger shape reads at idx.
item(a, idx) ==
    a.at[<<IF a.shape[1] = 1 THEN 1 ELSE idx[1], IF a.shape[2] = 1 THEN 1 ELSE idx[2]>>]

\* np.allclose(a, b, rtol=0.0, atol=1e-7) of two 2-D arrays of finite entries:
\* all(abs(a - b) <= atol + rtol * abs(b)) over the broadcast of a and b, or the
\* ValueError of operands that cannot be broadcast together.
allclose(a, b) ==
    IF ~broadcastable(a.shape, b.shape) THEN [err |-> "ValueError", all |-> FALSE]
    ELSE [err |-> "none",
          all |-> \A idx \in Indices(broadcast_shape(a.shape, b.shape)) :
                      Abs(item(a, idx) - item(b, idx)) <= Atol]

\* A validation that also refuses matrices with a negative entry.
validate_input_nonnegative(data) ==
    IF data.type # "ndarray" THEN "TypeError"
    ELSE IF Len(data.shape) # 2 THEN "ValueError"
    ELSE IF \E idx \in Indices(data.shape) : data.at[idx] < 0 THEN "ValueError"
    ELSE LET c == allclose(data, transpose(data))
         IN  IF c.err # "none" THEN c.err
             ELSE IF ~c.all THEN "ValueError" ELSE "none"

\* MatrixToGraphEmbedder.validate_input: the error it raises, or "none".
validate_input(data) ==
    IF data.type # "ndarray" THEN "TypeError"
    ELSE IF Len(data.shape) # 2 THEN "ValueError"
    ELSE LET c == allclose(data, transpose(data))
         IN  IF c.err # "none" THEN c.err
             ELSE IF ~c.all THEN "ValueError" ELSE "none"

\* A configuration that refuses a schedule whose last element is not 2.
BladeEmbeddingConfig_ends_at_2(dimensions) ==
    [err |-> IF dimensions[Len(dimensions)] = 2 THEN "none" ELSE "ValueError",
     dimensions |-> dimensions, steps_per_round |-> DefaultStepsPerRound]

\* BladeEmbeddingConfig(dimensions=...): a dataclass without __post_init__,
\* which holds the fields it is given.
BladeEmbeddingConfig(dimensions) ==
    [err |-> "none", dimensions |-> dimensions,
     steps_per_round |-> DefaultStepsPerRound]

NoConfig == [err |-> "none", dimensions |-> <<>>, steps_per_round |-> 0]

NoPositions == [exists |-> FALSE, points |-> 0]

\* len(a): the length of the first axis.
len(a) == IF a.shape = <<>> THEN 0 ELSE a.shape[1]

\* interaction_embedding(matrix, ...): the minimiser's result reshaped to
\* len(matrix) rows of 2 coordinates.
interaction_embedding(matrix) == [exists |-> TRUE, points |-> len(matrix)]

NoGraph == [exists |-> FALSE, nodes |-> {}, has_coords |-> FALSE]

\* DataGraph.from_coordinates(positions.tolist())
from_coordinates(positions) ==
    [exists |-> TRUE, nodes |-> 0..(positions.points - 1), has_coords |-> TRUE]

\* The array of the given 2-D shape with diag where the two indices agree and
\* off elsewhere, and delta added to the entry at pos.
Matrix(shape, diag, off, pos, delta) ==
    ndarray(shape,
            [idx \in Indices(shape) |->
                (IF idx[1] = idx[2] THEN diag ELSE off) + (IF idx = pos THEN delta ELSE 0)])

\* What an embedder is called with: 2-D arrays of every shape up to MaxN by
\* MaxN, with entries among -1, 0, 1, one of them possibly off by 5e-8 or by
\* 1e-5; 1-D and 3-D arrays; and a graph.
Inputs ==
    UNION {{Matrix(<<r, c>>, d, o, p, e) :
                d \in {0, One}, o \in {-One, 0, One},
                p \in Indices(<<r, c>>), e \in {0, 5, 1000}} : r, c \in 1..MaxN}
    \cup {ndarray(<<n>>, [idx \in Indices(<<n>>) |-> One]) : n \in 1..MaxN}
    \cup {ndarray(<<1, 1, 1>>, [idx \in Indices(<<1, 1, 1>>) |-> One]), NotAnArray}

\* The schedules a configuration is given: the default, and every sequence of
\* 2s and 3s of up to MaxRounds elements.
Schedules ==
    {DefaultDimensions} \cup UNION {[1..k -> {2, 3}] : k \in 1..MaxRounds}

\* token: a cancellation token the caller passes to embed after the data
\* ("none": embed is called with the data alone).
NoEmb ==
    [pc |-> "idle", kind |-> "none", data |-> NotAnArray, dims |-> <<>>,
     token |-> "none",
     config |-> NoConfig, err |-> "none", invoked |-> FALSE, kwargs |-> <<>>,
     positions |-> NoPositions, graph |-> NoGraph]

\* A call that is about to be made.
EmbCall(kind, data, dims) ==
    [NoEmb EXCEPT !.pc = "start", !.kind = kind, !.data = data, !.dims = dims]

\* An embed that takes a cancellation token and, when cancellation has been
\* requested, returns the positions without running the algorithm further.
embed_cancellable(e, kwargs, alg) ==
    LET err == validate_input(e.data)
        positions == [exists |-> TRUE, points |-> len(e.data)]
    IN  IF err # "none" THEN [e EXCEPT !.pc = "raised", !.err = err]
        ELSE IF e.token = "requested"
        THEN [e EXCEPT !.pc = "done", !.positions = positions,
                       !.graph = from_coordinates(positions)]
        ELSE IF alg.err # "none"
        THEN [e EXCEPT !.pc = "raised", !.err = alg.err, !.invoked = TRUE,
                       !.kwargs = kwargs]
        ELSE [e EXCEPT !.pc = "done", !.invoked = TRUE, !.kwargs = kwargs,
                       !.positions = alg.positions,
                       !.graph = from_coordinates(alg.positions)]

\* embed(data) as BladeEmbedder.embed writes it, for the algorithm's result
\* alg: validate_input, the algorithm, DataGraph.from_coordinates.  alg.err is
\* what the algorithm raises.  embed takes self and data: a call with one
\* more argument raises TypeError before the body runs.
embed(e, kwargs, alg) ==
    LET err == validate_input(e.data)
    IN  IF e.token # "none" THEN [e EXCEPT !.pc = "raised", !.err = "TypeError"]
        ELSE IF err # "none" THEN [e EXCEPT !.pc = "raised", !.err = err]
        ELSE IF alg.err # "none"
        THEN [e EXCEPT !.pc = "raised", !.err = alg.err, !.invoked = TRUE,
                       !.kwargs = kwargs]
        ELSE [e EXCEPT !.pc = "done", !.invoked = TRUE, !.kwargs = kwargs,
                       !.positions = alg.positions,
                       !.graph = from_coordinates(alg.positions)]

\* InteractionEmbedder().embed(data)
InteractionEmbed ==
    /\ emb.pc = "start"
    /\ emb.kind = "interaction"
    /\ emb' = embed(emb, <<>>,
                    [err |-> "none", positions |-> interaction_embedding(emb.data)])
    /\ UNCHANGED <<convVars, frc, scl, run, drv, laterVars>>

\* BladeEmbedder(config=BladeEmbeddingConfig(dimensions=emb.dims))
NewBladeEmbedder ==
    /\ emb.pc = "start"
    /\ emb.kind = "blade"
    /\ LET c == BladeEmbeddingConfig(emb.dims)
       IN  emb' = IF c.err # "none"
                  THEN [emb EXCEPT !.pc = "raised", !.err = c.err]
                  ELSE [emb EXCEPT !.pc = "ready", !.config = c]
    /\ UNCHANGED <<convVars, frc, scl, run, drv, laterVars>>

\* BladeEmbedder.embed(data).  blade_embedding is taken as a black box: it
\* returns positions for the rows of the matrix, or raises.
BladeEmbed ==
    /\ emb.pc = "ready"
    /\ \E returns \in BOOLEAN :
          emb' = embed(emb, emb.config.dimensions,
                       IF returns
                       THEN [err |-> "none",
                             positions |-> [exists |-> TRUE, points |-> len(emb.data)]]
                       ELSE [err |-> "Exception", positions |-> NoPositions])
    /\ UNCHANGED <<convVars, frc, scl, run, drv, laterVars>>

----------------------------------------------------------------------------
(* Interaction forces:                                                     *)
(* qoolqit/embedding/algorithms/blade/_interactions_forces.py              *)

\* The kernels work on n x n matrices over the pairs of nodes.  The model has
\* two nodes on a line: the matrices have the entries (1,2) and (2,1) and the
\* diagonal, and a unitary vector is -1, 0 or 1.
Nodes == {1, 2}
Pairs == Nodes \X Nodes

\* Bound of the distances drawn: the halves up to MaxHalf / 2.
MaxHalf == 6

\* Bound of the weights drawn: the multiples of 2/3 up to 2 * MaxK / 3.
MaxK == 6

\* np.maximum and np.minimum: NaN if either operand is.
np_maximum(a, b) == IF IsNaN(a) \/ IsNaN(b) THEN NaN ELSE RMax2(a, b)
np_minimum(a, b) == IF IsNaN(a) \/ IsNaN(b) THEN NaN ELSE RMin2(a, b)

\* np.max(np.abs(m))
np_max_abs(m) ==
    IF \E p \in Pairs : IsNaN(m[p]) THEN NaN
    ELSE CHOOSE v \in {RAbs(m[p]) : p \in Pairs} : \A p \in Pairs : RLe(RAbs(m[p]), v)

np_sign(x) == IF IsNaN(x) THEN NaN ELSE R(RSign(x))

\* The sixth root of a whole number that is a sixth power.
RECURSIVE IRoot6From(_, _)
IRoot6From(n, k) == IF k^6 >= n THEN k ELSE IRoot6From(n, k + 1)
IRoot6(n) == CHOOSE k \in {IRoot6From(n, 0)} : k^6 = n

\* _helpers.normalized_interaction on an array entry: 1 / dist**6.
normalized_interaction(dist) == RDiv(R(1), RPow(dist, 6))

\* _helpers.normalized_best_dist on an array entry: (1 / weight) ** (1 / 6),
\* which is inf for the weight 0 and NaN for a negative one.  The weights of
\* the model are sixth powers, so that the root is exact.
normalized_best_dist(weight) ==
    LET inv == RDiv(R(1), weight)
    IN  IF IsNaN(inv) THEN NaN
        ELSE IF IsInf(inv) THEN PosInf
        ELSE IF RSign(inv) < 0 THEN NaN
        ELSE <<IRoot6(inv[1]), IRoot6(inv[2])>>

\* A walk that is not limited.
clip_walk_unlimited(max_distance_to_walk, d) == d

\* np.minimum(max_distance_to_walk, np.maximum(-max_distance_to_walk, d))
clip_walk(max_distance_to_walk, d) ==
    np_minimum(max_distance_to_walk, np_maximum(RNeg(max_distance_to_walk), d))

\* The rectification of a modulated target distance, for the clipped walk c.
rectify(c, distance, modulated, target) ==
    IF REq(c, R(0)) THEN distance
    ELSE IF RLt(R(0), c) THEN np_maximum(modulated, target)
    ELSE np_minimum(modulated, target)

NoDistLimit ==
    [err |-> "none", rectified |-> <<>>, weights |-> <<>>]

\* compute_target_weights_by_dist_limit: the rectified modulated target
\* distances, the weights it returns for them, and the AssertionError of an
\* infinite weight in the strict upper triangle.
compute_target_weights_by_dist_limit(distance_matrix, target_weights, max_distance_to_walk) ==
    LET target_distances ==
            [p \in Pairs |-> IF p[1] = p[2] THEN R(0)
                             ELSE normalized_best_dist(target_weights[p])]
        distances_to_walk ==
            [p \in Pairs |-> IF p[1] = p[2] THEN R(0)
                             ELSE RDiv(RSub(distance_matrix[p], target_distances[p]), R(2))]
        modulated_distances_to_walk ==
            [p \in Pairs |-> clip_walk(max_distance_to_walk, distances_to_walk[p])]
        modulated_target_distances ==
            [p \in Pairs |->
                RSub(distance_matrix[p], RMul(modulated_distances_to_walk[p], R(2)))]
        rectified ==
            [p \in Pairs |-> rectify(modulated_distances_to_walk[p], distance_matrix[p],
                                     modulated_target_distances[p], target_distances[p])]
        modulated_target_weights ==
            [p \in Pairs |-> normalized_interaction(rectified[p])]
    IN  [err |-> IF \E p \in Pairs : p[1] < p[2] /\ IsInf(modulated_target_weights[p])
                 THEN "AssertionError" ELSE "none",
         rectified |-> rectified,
         weights |-> modulated_target_weights]

\* sin(pi * t) for 0 <= t <= 1 by Bhaskara's rational approximation
\* 16 t (1 - t) / (5 - 4 t (1 - t)), which is exact where the sine is rational:
\* at t = 0, 1/6, 1/2, 5/6 and 1.
Bhaskara(t) ==
    LET q == RMul(t, RSub(R(1), t))
    IN  RDiv(RMul(R(16), q), RSub(R(5), RMul(R(4), q)))

\* np.sin(u * np.pi / 2): the sine of pi * t for t = u / 2, reduced to a
\* period; NaN for an infinite u.
np_sin_half_pi(u) ==
    IF ~IsFinite(u) THEN NaN
    ELSE LET t == RDiv(u, R(2))
             r == RSub(t, R(2 * Floor(RDiv(t, R(2)))))
         IN  IF RLe(r, R(1)) THEN Bhaskara(r) ELSE RNeg(Bhaskara(RSub(r, R(1))))

\* compute_reduced_weight(x): (1 - np.sin((1 - x) * np.pi / 2)) * np.sign(x)
compute_reduced_weight(x) ==
    RMul(RSub(R(1), np_sin_half_pi(RSub(R(1), x))), np_sign(x))

NoWeightDiffLimit ==
    [err |-> "none", threshold |-> R(0), weight_differences |-> <<>>,
     weighted_vectors |-> <<>>, distances_to_walk |-> <<>>]

\* compute_target_weights_distances_by_weight_diff_limit: the threshold, the
\* weight differences after the reduction, the weighted vectors and the
\* distances to walk it returns, and the AssertionError of a NaN vector.  A
\* distance to walk (distance - step_target_distance) / 2 is kept as the
\* distance and the sixth power of the step target distance.
compute_target_weights_distances_by_weight_diff_limit(distance_matrix, unitary_vectors, current_weights, target_weights, weight_relative_threshold) ==
    LET differences ==
            [p \in Pairs |-> IF p[1] = p[2] THEN R(0)
                             ELSE RSub(target_weights[p], current_weights[p])]
        weight_difference_threshold ==
            RMul(np_max_abs(differences), weight_relative_threshold)
        weight_differences ==
            [p \in Pairs |->
                IF RLt(RAbs(differences[p]), weight_difference_threshold)
                THEN compute_reduced_weight(differences[p])
                ELSE differences[p]]
        step_target_weights ==
            [p \in Pairs |->
                RAdd(current_weights[p],
                     RMul(weight_differences[p], RSub(R(1), weight_relative_threshold)))]
        distances_to_walk ==
            [p \in Pairs |-> [from |-> distance_matrix[p],
                              to6 |-> RDiv(R(1), step_target_weights[p])]]
        weighted_vectors ==
            [p \in Pairs |-> RMul(weight_differences[p], unitary_vectors[p])]
    IN  [err |-> IF \E p \in Pairs : IsNaN(weighted_vectors[p])
                 THEN "AssertionError" ELSE "none",
         threshold |-> weight_difference_threshold,
         weight_differences |-> weight_differences,
         weighted_vectors |-> weighted_vectors,
         distances_to_walk |-> distances_to_walk]

\* The matrix with the entries a at (1,2) and b at (2,1) and diag on the
\* diagonal.
Mat2(a, b, diag) ==
    [p \in Pairs |-> IF p[1] = p[2] THEN diag ELSE IF p[1] < p[2] THEN a ELSE b]

\* The distances between two nodes: 0 (the nodes coincide) and the halves.
DistGrid == {Frac(n, 2) : n \in 0..MaxHalf}

\* The distances to walk at most: none, 1/2, 1, 4 and no limit.
WalkGrid == {R(0), Frac(1, 2), R(1), R(4), PosInf}

\* The weights: the multiples of 2/3, and 20.
WeightGrid == {Frac(2 * k, 3) : k \in 0..MaxK} \cup {R(20)}

\* The relative thresholds: BladeEmbeddingConfig's default 0.1, and 1/2.
ThresholdGrid == {Frac(1, 10), Frac(1, 2)}

NoFrc ==
    [pc |-> "idle", kind |-> "none", distance_matrix |-> <<>>,
     unitary_vectors |-> <<>>, current_weights |-> <<>>, target_weights |-> <<>>,
     max_distance_to_walk |-> R(0), weight_relative_threshold |-> R(0),
     dist_limit |-> NoDistLimit, weight_diff_limit |-> NoWeightDiffLimit]

\* The calls of compute_target_weights_by_dist_limit: the nodes are at the
\* distance d, the target weight of the pair is that of the distance t, or 0,
\* and the target weights are symmetric or upper triangular.
DistLimitCalls ==
    {[NoFrc EXCEPT !.pc = "start", !.kind = "dist_limit",
                   !.distance_matrix = Mat2(d, d, R(0)),
                   !.target_weights = Mat2(w, IF sym THEN w ELSE R(0), R(0)),
                   !.max_distance_to_walk = m] :
        d \in DistGrid, w \in {normalized_interaction(t) : t \in DistGrid \ {R(0)}} \cup {R(0)},
        sym \in BOOLEAN, m \in WalkGrid}

\* The calls of compute_target_weights_distances_by_weight_diff_limit: the
\* current weights are symmetric, the target weights need not be.  The
\* current weight inf is 1 / dist**6 of two nodes so close that dist**6 is
\* 0.0: nodes that coincide, whose unitary vector is 0, or nodes less than
\* 1e-52 apart, whose unitary vector has length 1.
WeightDiffLimitCalls ==
    {[NoFrc EXCEPT !.pc = "start", !.kind = "weight_diff_limit",
                   !.distance_matrix = Mat2(d, d, R(0)),
                   !.unitary_vectors = Mat2(cu[2], RNeg(cu[2]), R(0)),
                   !.current_weights = Mat2(cu[1], cu[1], PosInf),
                   !.target_weights = Mat2(a, b, PosInf),
                   !.weight_relative_threshold = th] :
        d \in {R(1), R(2)},
        cu \in ({R(0), Frac(2, 3), R(2)} \X {R(1)}) \cup ({PosInf} \X {R(0), R(1)}),
        a \in WeightGrid, b \in WeightGrid, th \in ThresholdGrid}

DistLimit ==
    /\ frc.pc = "start"
    /\ frc.kind = "dist_limit"
    /\ LET r == compute_target_weights_by_dist_limit(
                    frc.distance_matrix, frc.target_weights, frc.max_distance_to_walk)
       IN  frc' = [frc EXCEPT !.pc = IF r.err = "none" THEN "done" ELSE "raised",
                              !.dist_limit = r]
    /\ UNCHANGED <<convVars, emb, scl, run, drv, laterVars>>

WeightDiffLimit ==
    /\ frc.pc = "start"
    /\ frc.kind = "weight_diff_limit"
    /\ LET r == compute_target_weights_distances_by_weight_diff_limit(
                    frc.distance_matrix, frc.unitary_vectors, frc.current_weights,
                    frc.target_weights, frc.weight_relative_threshold)
       IN  frc' = [frc EXCEPT !.pc = IF r.err = "none" THEN "done" ELSE "raised",
                              !.weight_diff_limit = r]
    /\ UNCHANGED <<convVars, emb, scl, run, drv, laterVars>>

----------------------------------------------------------------------------
(* Scale computation:                                                      *)
(* qoolqit/embedding/algorithms/blade/_distances_constraints_calculator.py *)

\* A matrix over n nodes is kept as n and its strict upper triangle, in the
\* order of np.triu_indices_from(m, k=1): the code below reads no other
\* entry.  The nodes are points of a line.  A scaling and a minimal or
\* maximal distance are sixth roots, kept by sign and sixth power as the
\* distances of the unit converter are.

\* Bound of the scale steps a calculator is asked for.
MaxScaleSteps == 2

\* None, where a ratio is expected and where a distance is.
None == [none |-> TRUE, v |-> R(0)]
None6 == [none |-> TRUE, v |-> Dist(R(0))]
Some(v) == [none |-> FALSE, v |-> v]

\* np.triu_indices_from(m, k=1) of a matrix over n <= 3 nodes.
triu_indices_from(n) ==
    IF n = 2 THEN << <<1, 2>> >>
    ELSE IF n = 3 THEN << <<1, 2>>, <<1, 3>>, <<2, 3>> >>
    ELSE << >>

\* The vector with the entries e(1), ..., e(m).
Vector(m, e(_)) == [k \in 1..m |-> e(k)] \o <<>>

\* _helpers.distance_matrix_from_positions
distance_matrix_from_positions(positions) ==
    LET idx == triu_indices_from(Len(positions))
    IN  [n |-> Len(positions),
         triu |-> Vector(Len(idx), LAMBDA k :
                      RAbs(RSub(positions[idx[k][2]], positions[idx[k][1]])))]

\* np.sum of a vector.
RECURSIVE np_sum(_)
np_sum(a) == IF Len(a) = 0 THEN R(0) ELSE RAdd(a[1], np_sum(Tail(a)))

\* The sorted vector s with x put at its place.
RECURSIVE insert(_, _)
insert(s, x) ==
    IF Len(s) = 0 THEN <<x>>
    ELSE IF RLe(x, s[1]) THEN <<x>> \o s
    ELSE <<s[1]>> \o insert(Tail(s), x)

\* The vector in ascending order.
RECURSIVE np_sort(_)
np_sort(a) == IF Len(a) = 0 THEN <<>> ELSE insert(np_sort(Tail(a)), a[1])

\* numpy's _lerp(a, b, t): a + (b - a) * t, and b - (b - a) * (1 - t) where
\* t >= 0.5.
lerp(a, b, t) ==
    LET diff_b_a == RSub(b, a)
    IN  IF RLe(Frac(1, 2), t) THEN RSub(b, RMul(diff_b_a, RSub(R(1), t)))
        ELSE RAdd(a, RMul(diff_b_a, t))

\* np.percentile(a, q), method "linear", of a vector without NaN: the
\* interpolation of the two order statistics around q / 100 * (len(a) - 1).
np_percentile(a, q) ==
    LET s == np_sort(a)
        virtual_index == RMul(RDiv(q, R(100)), R(Len(a) - 1))
        previous == Floor(virtual_index)
        next == IF previous + 1 < Len(a) THEN previous + 1 ELSE Len(a) - 1
    IN  lerp(s[previous + 1], s[next + 1], RSub(virtual_index, R(previous)))

\* x ** (1 / 6) of a numpy double: NaN for a negative x.
np_root6(x) == IF IsNaN(x) \/ RSign(x) < 0 THEN Real6(0, NaN) ELSE Real6(RSign(x), x)

\* The product of two sixth roots.
Mul6(a, b) == Real6(a.sgn * b.sgn, RMul(a.p6, b.p6))

NoBestScaling ==
    [err |-> "none", difference_ceiling |-> R(0), embedded_interactions_triu |-> <<>>,
     best_scaling |-> Real6(0, R(0))]

\* The percentile 100 - 10 / (n - 1).
percent_of_one(n) == RSub(R(100), RMul(RDiv(R(1), R(n - 1)), R(10)))

\* percent = 100 - 2 / (len(target_interactions) - 1) * 10
percent(n) == RSub(R(100), RMul(RDiv(R(2), R(n - 1)), R(10)))

\* difference_ceiling = np.maximum(0.0, np.percentile(differences, percent))
difference_ceiling(differences, n) ==
    np_maximum(R(0), np_percentile(differences, percent(n)))

\* limited_differences = np.minimum(differences, difference_ceiling), and
\* np.where(differences == limited_differences, embedded_interactions_triu,
\*          target_interactions_triu + limited_differences)
filter(target_triu, embedded_triu, differences, ceiling) ==
    Vector(Len(differences), LAMBDA k :
        IF REq(differences[k], np_minimum(differences[k], ceiling))
        THEN embedded_triu[k]
        ELSE RAdd(target_triu[k], np_minimum(differences[k], ceiling)))

\* (np.sum(embedded ** 2) / np.sum(embedded * target)) ** (1 / 6)
best_scaling(target_triu, embedded_triu) ==
    np_root6(RDiv(
        np_sum(Vector(Len(embedded_triu), LAMBDA k : RPow(embedded_triu[k], 2))),
        np_sum(Vector(Len(embedded_triu), LAMBDA k :
                          RMul(embedded_triu[k], target_triu[k])))))

\* No assertion.
assertions_none(scaling) == "none"

\* assert not np.isnan(best_scaling); assert not np.isinf(best_scaling);
\* assert best_scaling > 0
assertions(scaling) ==
    IF IsNaN(scaling.p6) \/ IsInf(scaling.p6) \/ scaling.sgn <= 0
    THEN "AssertionError" ELSE "none"

\* What the computation leaves: the error raised, the ceiling, the embedded
\* interactions after the filter and the scaling.
asserted(ceiling, embedded_triu, scaling) ==
    [err |-> assertions(scaling), difference_ceiling |-> ceiling,
     embedded_interactions_triu |-> embedded_triu, best_scaling |-> scaling]

scaled(ceiling, target_triu, embedded_triu) ==
    asserted(ceiling, embedded_triu, best_scaling(target_triu, embedded_triu))

filtered(target_triu, embedded_triu, filter_differences, differences, ceiling) ==
    scaled(ceiling, target_triu,
           IF filter_differences
           THEN filter(target_triu, embedded_triu, differences, ceiling)
           ELSE embedded_triu)

limited(n, target_triu, embedded_triu, filter_differences, differences) ==
    filtered(target_triu, embedded_triu, filter_differences, differences,
             difference_ceiling(differences, n))

\* compute_best_scaling_for_qubo: the ceiling of the differences, the embedded
\* interactions after the filter, the scaling, and the error raised: the
\* ZeroDivisionError of 2 / (len(target_interactions) - 1) for one node, the
\* AssertionError of a scaling that is NaN, infinite or not positive.
compute_best_scaling_for_qubo(target_interactions, embedded_interactions, filter_differences) ==
    IF target_interactions.n = 1
    THEN [NoBestScaling EXCEPT !.err = "ZeroDivisionError"]
    ELSE limited(target_interactions.n, target_interactions.triu,
                 embedded_interactions.triu, filter_differences,
                 Vector(Len(target_interactions.triu), LAMBDA k :
                     RSub(embedded_interactions.triu[k], target_interactions.triu[k])))

\* _helpers.interaction_matrix_from_positions: the strict upper triangle of
\* 1 / dist**6.
interaction_matrix_from_positions(positions) ==
    LET distance_matrix == distance_matrix_from_positions(positions)
    IN  [n |-> distance_matrix.n,
         triu |-> Vector(Len(distance_matrix.triu), LAMBDA k :
                      normalized_interaction(distance_matrix.triu[k]))]

\* A scaling computed from the distances in place of the interactions.
compute_best_scaling_for_pos_by_distance(target_interactions, positions) ==
    compute_best_scaling_for_qubo(
        target_interactions, distance_matrix_from_positions(positions), TRUE)

\* compute_best_scaling_for_pos
compute_best_scaling_for_pos(target_interactions, positions) ==
    compute_best_scaling_for_qubo(
        target_interactions, interaction_matrix_from_positions(positions), TRUE)

NoMatrix == [n |-> 0, triu |-> <<>>]

NoCalculator ==
    [exists |-> FALSE, target_interactions |-> NoMatrix, starting_min |-> None6,
     starting_ratio |-> None, final_ratio |-> None, current_min |-> None6]

\* A calculator that keeps the starting ratio it is given.
DistancesConstraintsCalculator_keeps_ratio(target_interactions, starting_min, starting_ratio, final_ratio) ==
    IF ~final_ratio.none /\ starting_min.none
    THEN [err |-> "AssertionError", calculator |-> NoCalculator]
    ELSE [err |-> "none",
          calculator |->
              [exists |-> TRUE, target_interactions |-> target_interactions,
               starting_min |-> starting_min,
               starting_ratio |-> starting_ratio,
               final_ratio |-> final_ratio,
               current_min |-> IF final_ratio.none THEN None6 ELSE starting_min]]

\* DistancesConstraintsCalculator(...) with its __post_init__.
DistancesConstraintsCalculator(target_interactions, starting_min, starting_ratio, final_ratio) ==
    IF ~final_ratio.none /\ starting_min.none
    THEN [err |-> "AssertionError", calculator |-> NoCalculator]
    ELSE [err |-> "none",
          calculator |->
              [exists |-> TRUE, target_interactions |-> target_interactions,
               starting_min |-> starting_min,
               starting_ratio |-> IF final_ratio.none THEN None ELSE starting_ratio,
               final_ratio |-> final_ratio,
               current_min |-> IF final_ratio.none THEN None6 ELSE starting_min]]

NoReturn == <<Real6(0, R(0)), None6, None6>>

\* A step ratio that goes from the final ratio to the starting one.
step_ratio_reversed(self, step_cursor) ==
    RAdd(self.starting_ratio.v,
         RMul(RSub(R(1), step_cursor), RSub(self.final_ratio.v, self.starting_ratio.v)))

\* step_ratio = final_ratio + (1 - step_cursor) * (starting_ratio - final_ratio)
step_ratio(self, step_cursor) ==
    RAdd(self.final_ratio.v,
         RMul(RSub(R(1), step_cursor), RSub(self.starting_ratio.v, self.final_ratio.v)))

\* A step that returns the scaled minimum without storing it.
min_max_keeps_min(self, scaling_factor, scaled_min, ratio) ==
    [err |-> "none",
     self |-> self,
     returned |-> <<scaling_factor, Some(scaled_min), Some(Mul6(scaled_min, Dist(ratio)))>>]

\* self.current_min, current_max = scaled_min, scaled_min * step_ratio
min_max(self, scaling_factor, scaled_min, ratio) ==
    [err |-> "none",
     self |-> [self EXCEPT !.current_min = Some(scaled_min)],
     returned |-> <<scaling_factor, Some(scaled_min), Some(Mul6(scaled_min, Dist(ratio)))>>]

\* compute_scaling_min_max after the scaling factor has been computed.
scaling_min_max(self, step_cursor, r) ==
    IF r.err # "none" THEN [err |-> r.err, self |-> self, returned |-> NoReturn]
    ELSE IF self.final_ratio.none
    THEN [err |-> "none", self |-> self, returned |-> <<r.best_scaling, None6, None6>>]
    ELSE IF self.starting_ratio.none
    THEN [err |-> "AssertionError", self |-> self, returned |-> NoReturn]
    ELSE min_max(self, r.best_scaling, Mul6(self.current_min.v, r.best_scaling),
                 step_ratio(self, step_cursor))

\* DistancesConstraintsCalculator.compute_scaling_min_max: the error raised,
\* the calculator after the call and the triple returned.
compute_scaling_min_max(self, positions, step_cursor) ==
    IF ~(RLe(R(0), step_cursor) /\ RLe(step_cursor, R(1)))
    THEN [err |-> "AssertionError", self |-> self, returned |-> NoReturn]
    ELSE scaling_min_max(self, step_cursor,
             compute_best_scaling_for_pos(self.target_interactions, positions))

\* The coordinates of the nodes: 0, 1 and 2, and their doubles.
Coords == {0, 1, 2}

Points(n) ==
    {[k \in 1..n |-> R(c[k])] : c \in [1..n -> Coords]}
    \cup {[k \in 1..n |-> R(2 * c[k])] : c \in [1..n -> Coords]}

\* The target interactions: those of nodes at distinct coordinates.
Targets(n) ==
    {interaction_matrix_from_positions([k \in 1..n |-> R(c[k])]) :
        c \in {x \in [1..n -> Coords] : \A i, j \in 1..n : x[i] = x[j] => i = j}}

\* The vectors of the given length over a grid.
Vectors(m, grid) == [1..m -> grid]

\* args: what the calculator is constructed with; previous_min: the current
\* minimum before the last step; steps: the steps asked for so far;
\* scalings: the scaling factors the steps have returned, in order.
NoScl ==
    [pc |-> "idle", kind |-> "none", target_interactions |-> NoMatrix,
     embedded_interactions |-> NoMatrix, filter_differences |-> TRUE,
     positions |-> <<>>, step_cursor |-> R(0), best |-> NoBestScaling,
     args |-> <<None6, None, None>>, calculator |-> NoCalculator,
     previous_min |-> None6, steps |-> 0, scalings |-> <<>>, returned |-> NoReturn,
     err |-> "none"]

\* The calls of compute_best_scaling_for_qubo: matrices over one, two and
\* three nodes with entries 0, 1, 2 (embedded) and -1, 0, 1, 2 (target).
QuboCalls ==
    {[NoScl EXCEPT !.pc = "start", !.kind = "qubo",
                   !.target_interactions = [n |-> n, triu |-> w],
                   !.embedded_interactions = [n |-> n, triu |-> i],
                   !.filter_differences = f] :
        n \in {1}, w \in {<<>>}, i \in {<<>>}, f \in BOOLEAN}
    \cup UNION {
        {[NoScl EXCEPT !.pc = "start", !.kind = "qubo",
                       !.target_interactions = [n |-> n, triu |-> w],
                       !.embedded_interactions = [n |-> n, triu |-> i],
                       !.filter_differences = f] :
            w \in Vectors(Len(triu_indices_from(n)), {R(-1), R(0), R(1), R(2)}),
            i \in Vectors(Len(triu_indices_from(n)), {R(0), R(1), R(2)}),
            f \in BOOLEAN} : n \in {2, 3}}

\* The calls of compute_best_scaling_for_pos.
PosCalls ==
    UNION {
        {[NoScl EXCEPT !.pc = "start", !.kind = "pos",
                       !.target_interactions = w, !.positions = p] :
            w \in Targets(n), p \in Points(n)} : n \in {2, 3}}

\* The calculators constructed: with and without a starting minimum, a
\* starting ratio and a final ratio.
CalculatorCalls ==
    UNION {
        {[NoScl EXCEPT !.pc = "start", !.kind = "calculator",
                       !.target_interactions = w, !.args = <<m, s, f>>] :
            w \in {interaction_matrix_from_positions([k \in 1..n |-> R(k - 1)])},
            m \in {None6, Some(Dist(Frac(1, 2))), Some(Dist(R(1)))},
            s \in {None, Some(R(2)), Some(R(4))},
            f \in {None, Some(R(1)), Some(R(2))}} : n \in {2, 3}}

\* The positions a calculator is asked about: the nodes at their target
\* places, mirrored, twice as far apart, all at one place.
StepPositions(n) ==
    {[k \in 1..n |-> R(k - 1)], [k \in 1..n |-> R(n - k)],
     [k \in 1..n |-> R(2 * (k - 1))], [k \in 1..n |-> R(0)]}

\* The step cursors: 0, 1/2, 1, and 3/2, which is none.
Cursors == {R(0), Frac(1, 2), R(1), Frac(3, 2)}

\* The call after a scaling was computed for it.
computed(s, embedded_interactions, r) ==
    [s EXCEPT !.pc = IF r.err = "none" THEN "done" ELSE "raised",
              !.embedded_interactions = embedded_interactions,
              !.best = r, !.err = r.err]

\* The call after the calculator was constructed.
constructed(s, r) ==
    [s EXCEPT !.pc = IF r.err = "none" THEN "ready" ELSE "raised",
              !.calculator = r.calculator, !.err = r.err]

\* The caller after a scale step of its calculator.
stepped(s, positions, step_cursor, r) ==
    [s EXCEPT !.pc = IF r.err = "none" THEN "done" ELSE "raised",
              !.positions = positions,
              !.step_cursor = step_cursor,
              !.previous_min = s.calculator.current_min,
              !.calculator = r.self,
              !.returned = r.returned,
              !.steps = s.steps + 1,
              !.scalings = IF r.err = "none" THEN Append(s.scalings, r.returned[1])
                           ELSE s.scalings,
              !.err = r.err]

\* compute_best_scaling_for_qubo(target_interactions, embedded_interactions,
\* filter_differences)
BestScalingForQubo ==
    /\ scl.pc = "start"
    /\ scl.kind = "qubo"
    /\ scl' = computed(scl, scl.embedded_interactions,
                       compute_best_scaling_for_qubo(
                           scl.target_interactions, scl.embedded_interactions,
                           scl.filter_differences))
    /\ UNCHANGED <<convVars, emb, frc, run, drv, laterVars>>

\* compute_best_scaling_for_pos(target_interactions, positions)
BestScalingForPos ==
    /\ scl.pc = "start"
    /\ scl.kind = "pos"
    /\ scl' = computed(scl, interaction_matrix_from_positions(scl.positions),
                       compute_best_scaling_for_pos(scl.target_interactions,
                                                    scl.positions))
    /\ UNCHANGED <<convVars, emb, frc, run, drv, laterVars>>

\* DistancesConstraintsCalculator(target_interactions, starting_min,
\* starting_ratio, final_ratio)
NewCalculator ==
    /\ scl.pc = "start"
    /\ scl.kind = "calculator"
    /\ scl' = constructed(scl, DistancesConstraintsCalculator(
                                   scl.target_interactions,
                                   scl.args[1], scl.args[2], scl.args[3]))
    /\ UNCHANGED <<convVars, emb, frc, run, drv, laterVars>>

\* calculator.compute_scaling_min_max(positions, step_cursor)
ComputeScalingMinMax ==
    /\ scl.calculator.exists
    /\ scl.steps < MaxScaleSteps
    /\ \E positions \in StepPositions(scl.target_interactions.n), step_cursor \in Cursors :
          scl' = stepped(scl, positions, step_cursor,
                         compute_scaling_min_max(scl.calculator, positions, step_cursor))
    /\ UNCHANGED <<convVars, emb, frc, run, drv, laterVars>>

----------------------------------------------------------------------------
(* Embedding run: the round scheduler behind blade_embedding               *)

\* The loop over the rounds is not among the sources; it is taken from the
\* description of the round scheduler: for k = 1..K, S steps at dimension d_k,
\* then the projection to d_(k+1); after round K the positions are returned.

\* Bound of the steps per round drawn (the default 200 is drawn besides).
MaxStepsPerRound == 3

\* k: the round; s: the steps made in it; steps: the steps made in all.
NoRun ==
    [pc |-> "idle", dimensions |-> <<>>, steps_per_round |-> 0,
     k |-> 0, s |-> 0, steps |-> 0, dimension |-> 0]

\* blade(matrix, dimensions=..., steps_per_round=...) as it starts its first
\* round.
blade(dimensions, steps_per_round) ==
    [pc |-> "running", dimensions |-> dimensions, steps_per_round |-> steps_per_round,
     k |-> 1, s |-> 0, steps |-> 0, dimension |-> dimensions[1]]

\* One step of the round: the forces, the update of the positions, the scale.
update_positions(r) == [r EXCEPT !.s = r.s + 1, !.steps = r.steps + 1]

\* An end of round that returns after the first round.
end_round_returns(r) == [r EXCEPT !.pc = "done", !.dimension = 2]

\* The end of a round: the projection to the next dimension and the next
\* round, or the return of the positions after the last.
end_round(r) ==
    IF r.k < Len(r.dimensions)
    THEN [r EXCEPT !.k = r.k + 1, !.s = 0, !.dimension = r.dimensions[r.k + 1]]
    ELSE [r EXCEPT !.pc = "done"]

\* The runs: the default configuration, and every schedule with up to
\* MaxStepsPerRound steps per round.
Runs ==
    {blade(DefaultDimensions, DefaultStepsPerRound)}
    \cup {blade(d, n) : d \in Schedules, n \in 1..MaxStepsPerRound}

RunStep ==
    /\ run.pc = "running"
    /\ run.s < run.steps_per_round
    /\ run' = update_positions(run)
    /\ UNCHANGED <<convVars, emb, frc, scl, drv, laterVars>>

EndRound ==
    /\ run.pc = "running"
    /\ run.s >= run.steps_per_round
    /\ run' = end_round(run)
    /\ UNCHANGED <<convVars, emb, frc, scl, drv, laterVars>>

----------------------------------------------------------------------------
(* Weighted detunings: qoolqit/execution/compilation_functions.py          *)

\* Bound of the weights drawn: the halves from -MaxWeight / 2 to MaxWeight / 2.
MaxWeight == 2

\* The keys of a weights mapping: the qubit ids 0 and 1, each an int or a
\* str, written as the type and the decimal digits.
QubitKeys == [type : {"int", "str"}, digits : {"0", "1"}]

\* A weights mapping is a set of (key, weight) pairs; a qubit is named once,
\* by its int or by its str.
WeightMaps ==
    {m \in SUBSET (QubitKeys \X {Frac(k, 2) : k \in (-MaxWeight)..MaxWeight}) :
        /\ m # {}
        /\ Cardinality(m) <= 2
        /\ \A a, b \in m : a[1].digits = b[1].digits => a = b}

\* isinstance(k, str)
isinstance_str(k) == k.type = "str"

\* str(k) of an int key: its decimal digits.
str(k) == [type |-> "str", digits |-> k.digits]

\* A conversion that keeps only the non-positive weights.
converted_weights_nonpositive(weights) ==
    {<<IF isinstance_str(kv[1]) THEN kv[1] ELSE str(kv[1]), kv[2]>> :
        kv \in {x \in weights : RLe(x[2], R(0))}}

\* add_detuning's converted_weights:
\* {k if isinstance(k, str) else str(k): v for k, v in detuning.weights.items()}
converted_weights(weights) ==
    {<<IF isinstance_str(kv[1]) THEN kv[1] ELSE str(kv[1]), kv[2]>> : kv \in weights}

\* WeightedDetuning(weights=..., waveform=...): the class is not among the
\* sources.  The weights it is built with in the tests are positive
\* (test_drive: {0: 1}; conftest: uniform(0.1, 0.99)), those the description
\* names are non-positive; it holds the mapping it is given.
WeightedDetuning(weights) == [err |-> "none", weights |-> weights]

NoDetuning == [err |-> "none", weights |-> {}]

\* Drive(detuning=..., weighted_detunings=[detuning]): the drive holds the
\* list it is given (test_drive: len(drive.weighted_detunings) == 1).
Drive(weighted_detunings) == [err |-> "none", weighted_detunings |-> weighted_detunings]

NoDrv ==
    [pc |-> "idle", weights |-> {}, detuning |-> NoDetuning,
     weighted_detunings |-> <<>>, detuning_weights |-> {}, err |-> "none"]

\* The weighted detunings a caller builds.
DetuningCalls == {[NoDrv EXCEPT !.pc = "start", !.weights = w] : w \in WeightMaps}

\* WeightedDetuning(weights=drv.weights, waveform=Ramp(1.0, -0.2, -0.5))
NewWeightedDetuning ==
    /\ drv.pc = "start"
    /\ LET d == WeightedDetuning(drv.weights)
       IN  drv' = IF d.err # "none"
                  THEN [drv EXCEPT !.pc = "raised", !.err = d.err]
                  ELSE [drv EXCEPT !.pc = "detuning", !.detuning = d]
    /\ UNCHANGED <<convVars, emb, frc, scl, run, laterVars>>

\* Drive(detuning=det_wf, weighted_detunings=[drv.detuning])
NewDrive ==
    /\ drv.pc = "detuning"
    /\ LET d == Drive(<<drv.detuning>>)
       IN  drv' = IF d.err # "none"
                  THEN [drv EXCEPT !.pc = "raised", !.err = d.err]
                  ELSE [drv EXCEPT !.pc = "drive",
                                   !.weighted_detunings = d.weighted_detunings]
    /\ UNCHANGED <<convVars, emb, frc, scl, run, laterVars>>

\* _DetuningAdder.add_detuning(dmm_id, detuning) for the detuning of the drive:
\* the converted weights are handed to the register's define_detuning_map,
\* which belongs to pulser and returns or raises.
AddDetuning ==
    /\ drv.pc = "drive"
    /\ \E returns \in BOOLEAN :
          drv' = [drv EXCEPT !.pc = IF returns THEN "compiled" ELSE "raised",
                             !.err = IF returns THEN "none" ELSE "Exception",
                             !.detuning_weights =
                                 converted_weights(drv.weighted_detunings[1].weights)]
    /\ UNCHANGED <<convVars, emb, frc, scl, run, laterVars>>

----------------------------------------------------------------------------
(* Graphs: qoolqit/graphs/base_graph.py, data_graph.py, utils.py           *)

\* Nodes are 0..n-1, as from_coordinates and from_matrix number them.  The
\* coordinates of the model lie on the x axis, (x, 0) with x whole, so that
\* math.dist is |x - y| and exact.  An edge is kept as (u, v) with u < v, which
\* is what sorted_edges makes of it.

\* Bound of the number of nodes of a graph.
MaxNodes == 3

\* Bound of the x coordinate of a node.
MaxCoord == 3

\* qoolqit.utils.ATOL_32
ATOL_32 == Frac(1, 10^7)

\* A coordinate: None, or the point (x, 0).
NoCoord == [none |-> TRUE, x |-> R(0)]

Point(x) == [none |-> FALSE, x |-> R(x)]

\* utils.all_node_pairs(nodes)
all_node_pairs(nodes) == {p \in nodes \X nodes : p[1] < p[2]}

\* math.dist(p, q) of two points of the x axis.
math_dist(p, q) == RAbs(RSub(p.x, q.x))

\* n/d <= 1/q for a difference n/d >= 0, without the product n * q.
within(diff, abs_tol) == diff[1] <= diff[2] \div abs_tol[2]

\* utils.less_or_equal(a, b): a < b or isclose(a, b, rel_tol=0.0,
\* abs_tol=ATOL_32); math.isclose of two different values of which one is
\* infinite is False.
less_or_equal(a, b) ==
    \/ RLt(a, b)
    \/ a = b
    \/ IsFinite(a) /\ IsFinite(b) /\ within(RAbs(RSub(a, b)), ATOL_32)

\* BaseGraph.has_coords
has_coords(g) == ~((\E i \in g.nodes : g.coords[i].none) \/ g.nodes = {})

\* BaseGraph.distances(edge_list), of a graph that has coordinates.
distances(g, edge_list) ==
    [e \in edge_list |-> math_dist(g.coords[e[1]], g.coords[e[2]])]

\* min(d.values()) and max(d.values()) of a dictionary that is not empty.
min_values(d) ==
    CHOOSE v \in {d[e] : e \in DOMAIN d} : \A e \in DOMAIN d : RLe(v, d[e])

max_values(d) ==
    CHOOSE v \in {d[e] : e \in DOMAIN d} : \A e \in DOMAIN d : RLe(d[e], v)

\* The edges min_distance and max_distance look at.
edge_list(g, connected) ==
    IF connected THEN g.edges ELSE all_node_pairs(g.nodes) \ g.edges

\* BaseGraph.min_distance(connected) of a graph that has coordinates: the
\* ValueError of distances() for an empty edge list, or the minimum.
min_distance(g, connected) ==
    IF edge_list(g, connected) = {} THEN [err |-> "ValueError", v |-> R(0)]
    ELSE [err |-> "none", v |-> min_values(distances(g, edge_list(g, connected)))]

\* BaseGraph.max_distance(connected) of a graph that has coordinates.
max_distance(g, connected) ==
    IF edge_list(g, connected) = {} THEN [err |-> "ValueError", v |-> R(0)]
    ELSE [err |-> "none", v |-> max_values(distances(g, edge_list(g, connected)))]

NoRange == <<R(0), R(0)>>

\* The range (lo, hi), or the error raised while one of them was computed.
range_of(lo, hi) ==
    IF lo.err # "none" THEN [err |-> lo.err, range |-> NoRange]
    ELSE IF hi.err # "none" THEN [err |-> hi.err, range |-> NoRange]
    ELSE [err |-> "none", range |-> <<lo.v, hi.v>>]

\* The last branches of ud_radius_range: max_distance(connected=True) <
\* min_distance(connected=False), or ValueError("Graph is not unit disk.").
unit_disk_range(lo, hi) ==
    IF RLt(lo.v, hi.v) THEN range_of(lo, hi)
    ELSE [err |-> "ValueError", range |-> NoRange]

\* BaseGraph.ud_radius_range
ud_radius_range(g) ==
    IF ~has_coords(g) THEN [err |-> "AttributeError", range |-> NoRange]
    ELSE IF Cardinality(g.edges) = 0
    THEN range_of([err |-> "none", v |-> R(0)], min_distance(g, FALSE))
    ELSE IF Cardinality(g.edges) = Cardinality(all_node_pairs(g.nodes))
    THEN range_of(max_distance(g, TRUE), [err |-> "none", v |-> PosInf])
    ELSE unit_disk_range(max_distance(g, TRUE), min_distance(g, FALSE))

\* BaseGraph.ud_edges(radius)
ud_edges(g, radius) ==
    IF has_coords(g)
    THEN [err |-> "none",
          edges |-> {e \in all_node_pairs(g.nodes) :
                        less_or_equal(math_dist(g.coords[e[1]], g.coords[e[2]]), radius)}]
    ELSE [err |-> "AttributeError", edges |-> {}]

\* The graph after self.add_edges_from(self.ud_edges(radius)), or as it was
\* when ud_edges raises.
add_edges_from(g, r) ==
    [err |-> r.err,
     graph |-> IF r.err = "none" THEN [g EXCEPT !.edges = g.edges \cup r.edges] ELSE g]

\* BaseGraph.set_ud_edges(radius): self.remove_edges_from(list(self.edges)),
\* then self.add_edges_from(self.ud_edges(radius)).
set_ud_edges(g, radius) ==
    add_edges_from([g EXCEPT !.edges = {}], ud_edges(g, radius))

\* The last line of DataGraph.set_ud_edges, which is not reached when the
\* call of the base class raises.
reset_edge_weights(r) ==
    IF r.err # "none" THEN r
    ELSE [r EXCEPT !.graph.edge_weights = [e \in r.graph.edges |-> None]]

\* DataGraph.set_ud_edges(radius)
DataGraph_set_ud_edges(g, radius) == reset_edge_weights(set_ud_edges(g, radius))

\* graph.set_ud_edges(radius), by the class of the graph.
call_set_ud_edges(g, radius) ==
    IF g.cls = "DataGraph" THEN DataGraph_set_ud_edges(g, radius)
    ELSE set_ud_edges(g, radius)

\* A graph: its class, its nodes, _coords, its edges and, for a DataGraph,
\* _edge_weights (for a BaseGraph: nothing).
Graph(cls, n, coords, edges, weight) ==
    [cls |-> cls, nodes |-> 0..(n - 1), coords |-> coords, edges |-> edges,
     edge_weights |-> IF cls = "DataGraph" THEN [e \in edges |-> weight] ELSE <<>>]

NoGraphObject == Graph("BaseGraph", 0, <<>>, {}, None)

\* The graphs with coordinates: DataGraphs of up to MaxNodes nodes at whole
\* places of the x axis up to MaxCoord, in the order of their numbers, with
\* any set of edges and no edge weights.
CoordGraphs ==
    UNION {{Graph("DataGraph", n, [i \in 0..(n - 1) |-> Point(x[i])], edges, None) :
                x \in {y \in [0..(n - 1) -> 0..MaxCoord] :
                          \A i \in 0..(n - 2) : y[i] <= y[i + 1]},
                edges \in SUBSET all_node_pairs(0..(n - 1))} : n \in 1..MaxNodes}

\* The graphs without coordinates: BaseGraphs and DataGraphs made from edges,
\* the DataGraphs with no edge weights or with the weight 1 on every edge.
PlainGraphs ==
    UNION {{Graph(cls, n, [i \in 0..(n - 1) |-> NoCoord], edges, w) :
                cls \in {"BaseGraph", "DataGraph"},
                edges \in SUBSET all_node_pairs(0..(n - 1)),
                w \in {None, Some(R(1))}} : n \in 2..MaxNodes}

\* The radii asked for: the halves up to MaxCoord, those just below a whole
\* distance by 5e-8, and infinity.
Radii ==
    {Frac(k, 2) : k \in 0..(2 * MaxCoord)}
    \cup {RSub(R(k), Frac(1, 2 * 10^7)) : k \in 1..MaxCoord}
    \cup {PosInf}

\* op: the last call; graph: the graph now; original: the graph before the first call; before:
\* the graph before the last call of set_ud_edges; range: what ud_radius_range
\* returned for the original graph.
NoGph ==
    [pc |-> "idle", kind |-> "none", op |-> "none", graph |-> NoGraphObject,
     original |-> NoGraphObject, before |-> NoGraphObject, range |-> NoRange,
     ranged |-> FALSE, radius |-> R(0), err |-> "none",
     data |-> NotAnArray, array |-> NotAnArray]

GraphCalls ==
    {[NoGph EXCEPT !.pc = "start", !.kind = "graph", !.graph = g, !.original = g,
                   !.before = g] : g \in CoordGraphs \cup PlainGraphs}

\* The caller after ud_radius_range.
ranged(s, r) ==
    [s EXCEPT !.pc = IF r.err = "none" THEN "ranged" ELSE "raised",
              !.op = "ud_radius_range",
              !.range = r.range, !.ranged = r.err = "none", !.err = r.err]

\* The caller after set_ud_edges.
edges_set(s, radius, r) ==
    [s EXCEPT !.pc = IF r.err = "none" THEN "set" ELSE "raised",
              !.op = "set_ud_edges",
              !.before = s.graph, !.graph = r.graph, !.radius = radius,
              !.err = r.err]

\* graph.ud_radius_range(), asked of the graph as it was made.
UdRadiusRange ==
    /\ gph.kind = "graph"
    /\ gph.pc = "start"
    /\ gph' = ranged(gph, ud_radius_range(gph.graph))
    /\ UNCHANGED <<convVars, emb, frc, scl, run, drv, rnd, prg, job>>

\* graph.set_ud_edges(radius)
SetUdEdges ==
    /\ gph.kind = "graph"
    /\ gph.pc # "start"
    /\ \E radius \in Radii :
          gph' = edges_set(gph, radius, call_set_ud_edges(gph.graph, radius))
    /\ UNCHANGED <<convVars, emb, frc, scl, run, drv, rnd, prg, job>>

\* A from_matrix that works on a copy of data.
zeroed_copy(data) == data

\* data[data <= ATOL_32] = 0.0, in place.  The entries of an array are whole
\* multiples of 1e-8, of which ATOL_32 is Atol.
zeroed(data) ==
    ndarray(data.shape,
            [idx \in Indices(data.shape) |-> IF data.at[idx] <= Atol THEN 0 ELSE data.at[idx]])

\* edge_list: the (i, j) with i < j of data.nonzero(), numbered from 0.
nonzero_edges(data) ==
    {<<idx[1] - 1, idx[2] - 1>> : idx \in {i \in Indices(data.shape) : i[1] < i[2] /\ data.at[i] # 0}}

\* The nodes of the graph after from_nodes(range(n_nodes)) and
\* add_edges_from(edge_list), which adds the nodes its edges name.
nodes_of(n_nodes, edges) ==
    0..(n_nodes - 1) \cup {e[1] : e \in edges} \cup {e[2] : e \in edges}

\* from_matrix from the line that writes into data: the array after it, the
\* graph, and the ValueError of the node_weights setter when the graph has
\* other nodes than range(n_nodes).
built(array, n_nodes, edges) ==
    [err |-> IF nodes_of(n_nodes, edges) = 0..(n_nodes - 1) THEN "none" ELSE "ValueError",
     array |-> array,
     graph |-> [cls |-> "DataGraph", nodes |-> nodes_of(n_nodes, edges),
                coords |-> [i \in nodes_of(n_nodes, edges) |-> NoCoord],
                edges |-> edges,
                edge_weights |-> [e \in edges |->
                                     Some(Frac(array.at[<<e[1] + 1, e[2] + 1>>], One))]]]

\* len(np.diag(data)) of a 2-D array.
len_diag(data) == IF data.shape[1] < data.shape[2] THEN data.shape[1] ELSE data.shape[2]

\* from_matrix after data.ndim was found to be 2, for the outcome c of
\* np.allclose(data, data.T, rtol=0.0, atol=ATOL_32).
symmetric(data, c) ==
    IF c.err # "none" \/ ~c.all
    THEN [err |-> "ValueError", array |-> data, graph |-> NoGraphObject]
    ELSE built(zeroed(data), len_diag(data), nonzero_edges(zeroed(data)))

\* DataGraph.from_matrix(data): the error raised, the caller's array after
\* the call and the graph returned.
from_matrix(data) ==
    IF data.type # "ndarray"
    THEN [err |-> "AttributeError", array |-> data, graph |-> NoGraphObject]
    ELSE IF Len(data.shape) # 2
    THEN [err |-> "ValueError", array |-> data, graph |-> NoGraphObject]
    ELSE symmetric(data, allclose(data, transpose(data)))

MatrixCalls ==
    {[NoGph EXCEPT !.pc = "start", !.kind = "from_matrix", !.data = d, !.array = d] :
        d \in Inputs}

\* The caller after from_matrix.
made(s, r) ==
    [s EXCEPT !.pc = IF r.err = "none" THEN "done" ELSE "raised",
              !.op = "from_matrix",
              !.array = r.array, !.graph = r.graph, !.err = r.err]

\* DataGraph.from_matrix(data)
FromMatrix ==
    /\ gph.kind = "from_matrix"
    /\ gph.pc = "start"
    /\ gph' = made(gph, from_matrix(gph.data))
    /\ UNCHANGED <<convVars, emb, frc, scl, run, drv, rnd, prg, job>>

----------------------------------------------------------------------------
(* round_to_sum: qoolqit/waveforms/utils.py                                *)

\* The values are quarters, which doubles hold exactly, as are their sums and
\* remainders: the arithmetic of the model is that of the code.

\* Bound of the length of the list of values.
MaxLen == 3

\* Bound of the values: the quarters from 0 to MaxQuarter / 4.
MaxQuarter == 10

\* Python's round(x) of a finite x: the nearest whole number, the even one of
\* the two when x is halfway.
round(x) ==
    IF RLt(RSub(x, R(Floor(x))), Frac(1, 2)) THEN Floor(x)
    ELSE IF RLt(Frac(1, 2), RSub(x, R(Floor(x)))) THEN Floor(x) + 1
    ELSE IF Floor(x) % 2 = 0 THEN Floor(x)
    ELSE Floor(x) + 1

\* sum(a) of a list of floats.
RECURSIVE sum(_)
sum(a) == IF Len(a) = 0 THEN R(0) ELSE RAdd(a[1], sum(Tail(a)))

\* sum(a_round) of a list of ints.
RECURSIVE int_sum(_)
int_sum(a) == IF Len(a) = 0 THEN 0 ELSE a[1] + int_sum(Tail(a))

\* np.argsort(reminders): an order of the indices in which the remainders do
\* not decrease.  Which of the orders it is, among equal remainders, is left
\* to the sort.
argsort(reminders) ==
    {p \in [1..Len(reminders) -> 1..Len(reminders)] :
        /\ \A i, j \in 1..Len(reminders) : i # j => p[i] # p[j]
        /\ \A i \in 1..(Len(reminders) - 1) : RLe(reminders[p[i]], reminders[p[i + 1]])}

\* The loop: the abs(sum_reminders) first indices of p lose 1 when the sum is
\* negative, the last ones gain 1 when it is positive.
adjusted(a_round, p, sum_reminders) ==
    [k \in 1..Len(a_round) |->
        IF sum_reminders < 0 /\ (\E i \in 1..(-sum_reminders) : p[i] = k)
        THEN a_round[k] - 1
        ELSE IF sum_reminders > 0 /\ (\E i \in 1..sum_reminders : p[Len(p) + 1 - i] = k)
        THEN a_round[k] + 1
        ELSE a_round[k]]

\* assert round(sum(a)) == sum(a_round); return a_round
returned(a, a_round) ==
    IF round(sum(a)) = int_sum(a_round) THEN [err |-> "none", a_round |-> a_round]
    ELSE [err |-> "AssertionError", a_round |-> <<>>]

\* reminders = [el - rel for rel, el in zip(a_round, a)]
remainders(a, a_round) == [k \in 1..Len(a) |-> RSub(a[k], R(a_round[k]))]

\* roundsum after a_round and reminders, for the order p of the argsort.
rounded(a, a_round, reminders, p) ==
    returned(a, adjusted(a_round, p, round(sum(reminders))))

\* roundsum(a), which the callers import as round_to_sum, for the order p.
roundsum(a, p) ==
    rounded(a, [k \in 1..Len(a) |-> round(a[k])],
            remainders(a, [k \in 1..Len(a) |-> round(a[k])]), p)

\* The remainders the argsort of roundsum(a) is given.
reminders_of(a) == remainders(a, [k \in 1..Len(a) |-> round(a[k])])

\* The lists of up to MaxLen quarters.
ValueLists ==
    UNION {[1..n -> {Frac(k, 4) : k \in 0..MaxQuarter}] : n \in 0..MaxLen}

NoRnd == [pc |-> "idle", values |-> <<>>, returned |-> <<>>, err |-> "none"]

RoundCalls == {[NoRnd EXCEPT !.pc = "start", !.values = a] : a \in ValueLists}

\* The caller after roundsum.
round_called(s, r) ==
    [s EXCEPT !.pc = IF r.err = "none" THEN "done" ELSE "raised",
              !.returned = r.a_round, !.err = r.err]

\* round_to_sum(values)
RoundToSum ==
    /\ rnd.pc = "start"
    /\ \E p \in argsort(reminders_of(rnd.values)) :
          rnd' = round_called(rnd, roundsum(rnd.values, p))
    /\ UNCHANGED <<convVars, emb, frc, scl, run, drv, gph, prg, job>>

----------------------------------------------------------------------------
(* Quantum programs: qoolqit/quantum_program.py,                           *)
(* qoolqit/execution/compilation_functions.py                              *)

\* A program is compiled from what the compilation reads of it: of the
\* register the number of qubits, min_distance() and max_radial_distance(),
\* of the drive amplitude.max(), the larger of abs(detuning.min()) and
\* abs(detuning.max()), the duration and whether it has weighted detunings;
\* of the device specs, _energy_ratio and the number of its DMM channels.
\* DISTANCE is kept by its sixth power, and distances are compared by their
\* sixth powers, so that the factors of every profile are rationals.

\* Bound of the number of calls of compile_to on one program.
MaxCompiles == 2

\* The compiler profiles (execution/utils.py).
CompilerProfile == {"Default", "MaxAmplitude", "MaxDuration", "MinDistance"}

\* Python's truth value of an optional limit: None and 0 are false.
truthy(limit) == ~limit.none /\ limit.v # R(0)

\* device._energy_ratio of the specs.
energy_ratio(specs) ==
    IF truthy(specs.max_amplitude) /\ truthy(specs.min_distance)
    THEN Some(RMul(specs.max_amplitude.v, RPow(specs.min_distance.v, 6)))
    ELSE None

\* The profile after the fallback of basic_compilation.
fallback(program_energy_ratio, device_energy_ratio, profile) ==
    IF truthy(device_energy_ratio)
    THEN IF RLt(device_energy_ratio.v, program_energy_ratio)
         THEN IF profile = "MinDistance" THEN "MaxAmplitude" ELSE profile
         ELSE IF profile = "MaxAmplitude" THEN "MinDistance" ELSE profile
    ELSE profile

\* The factors of a profile in the adimensional basis; DISTANCE6 is
\* DISTANCE ** 6.
Factors(time, energy, distance6) ==
    [err |-> "none", TIME |-> time, ENERGY |-> energy, DISTANCE6 |-> distance6]

NoFactors == [err |-> "CompilationError", TIME |-> R(0), ENERGY |-> R(0), DISTANCE6 |-> R(0)]

\* The first part of _validate_program: the factors of the profile.
profile_factors(register, drive, specs, profile) ==
    IF profile = "Default" THEN Factors(R(1), R(1), R(1))
    ELSE IF profile = "MaxDuration" /\ truthy(specs.max_duration)
    THEN Factors(RDiv(specs.max_duration.v, drive.duration),
                 RDiv(drive.duration, specs.max_duration.v),
                 RDiv(specs.max_duration.v, drive.duration))
    ELSE IF profile = "MaxAmplitude" /\ truthy(specs.max_amplitude)
    THEN Factors(RDiv(drive.amplitude_max, specs.max_amplitude.v),
                 RDiv(specs.max_amplitude.v, drive.amplitude_max),
                 RDiv(drive.amplitude_max, specs.max_amplitude.v))
    ELSE IF profile = "MinDistance" /\ truthy(specs.min_distance)
    THEN Factors(RPow(RDiv(specs.min_distance.v, register.min_distance), 6),
                 RInv(RPow(RDiv(specs.min_distance.v, register.min_distance), 6)),
                 RPow(RDiv(specs.min_distance.v, register.min_distance), 6))
    ELSE NoFactors

\* limit and value > limit
over(value, limit) == truthy(limit) /\ RLt(limit.v, value)

\* limit and distance * DISTANCE > limit, by the sixth powers.
distance_over(distance, distance6, limit) ==
    truthy(limit) /\ RLt(RPow(limit.v, 6), RMul(RPow(distance, 6), distance6))

\* limit and distance * DISTANCE < limit, by the sixth powers.
distance_under(distance, distance6, limit) ==
    truthy(limit) /\ RLt(RMul(RPow(distance, 6), distance6), RPow(limit.v, 6))

\* A validation that leaves out the check of the duration.
checked_without_duration(register, drive, specs, f) ==
    IF f.err # "none" THEN f.err
    ELSE IF over(RMul(drive.amplitude_max, f.ENERGY), specs.max_amplitude)
    THEN "CompilationError"
    ELSE IF over(RMul(drive.detuning_abs_max, f.ENERGY), specs.max_abs_detuning)
    THEN "CompilationError"
    ELSE IF register.n_qubits > 1
            /\ distance_under(register.min_distance, f.DISTANCE6, specs.min_distance)
    THEN "CompilationError"
    ELSE IF distance_over(register.max_radial_distance, f.DISTANCE6,
                          specs.max_radial_distance)
    THEN "CompilationError"
    ELSE "none"

\* The second part of _validate_program: the checks against the specs, in
\* their order.
checked(register, drive, specs, f) ==
    IF f.err # "none" THEN f.err
    ELSE IF over(RMul(drive.amplitude_max, f.ENERGY), specs.max_amplitude)
    THEN "CompilationError"
    ELSE IF over(RMul(drive.detuning_abs_max, f.ENERGY), specs.max_abs_detuning)
    THEN "CompilationError"
    ELSE IF over(RMul(drive.duration, f.TIME), specs.max_duration)
    THEN "CompilationError"
    ELSE IF register.n_qubits > 1
            /\ distance_under(register.min_distance, f.DISTANCE6, specs.min_distance)
    THEN "CompilationError"
    ELSE IF distance_over(register.max_radial_distance, f.DISTANCE6,
                          specs.max_radial_distance)
    THEN "CompilationError"
    ELSE "none"

\* _validate_program(register, drive, device, profile): the error it raises,
\* or "none".
validate_program(register, drive, device, profile) ==
    checked(register, drive, device.specs,
            profile_factors(register, drive, device.specs, profile))

\* A Pulser sequence, by the profile it was compiled with.
PulserSequence(profile) == [profile |-> profile]

NoSequence == PulserSequence("None")

\* basic_compilation after _validate_program: the pulse, the register and the
\* sequence are built, then the detuning map is added; a program with
\* weighted detunings is refused by a device without DMM channel.
pulser_built(drive, device, profile, validation) ==
    IF validation # "none"
    THEN [err |-> validation, pulser |-> {}, sequence |-> NoSequence]
    ELSE IF drive.weighted_detunings > 0 /\ device.dmm_channels = 0
    THEN [err |-> "ValueError", pulser |-> {"pulse", "register", "sequence"},
          sequence |-> NoSequence]
    ELSE [err |-> "none", pulser |-> {"pulse", "register", "sequence"},
          sequence |-> PulserSequence(profile)]

\* basic_compilation after register.min_distance() has returned.
compiled_as(register, drive, device, profile) ==
    pulser_built(drive, device, profile, validate_program(register, drive, device, profile))

\* basic_compilation(register, drive, device, profile): register.min_distance()
\* is the first call that reads the register.
basic_compilation(register, drive, device, profile) ==
    IF register.min_distance_raises
    THEN [err |-> "ValueError", pulser |-> {}, sequence |-> NoSequence]
    ELSE compiled_as(register, drive, device,
                     fallback(RMul(drive.amplitude_max, RPow(register.min_distance, 6)),
                              device.energy_ratio, profile))

\* The registers: one qubit away from the origin, whose min_distance()
\* raises or returns, and two qubits a half, 1 or 2 apart, near the origin or
\* away from it.
Registers ==
    {[n_qubits |-> 1, min_distance_raises |-> b, min_distance |-> R(1),
      max_radial_distance |-> R(3)] : b \in BOOLEAN}
    \cup {[n_qubits |-> 2, min_distance_raises |-> FALSE, min_distance |-> d,
           max_radial_distance |-> R(1)] : d \in {Frac(1, 2), R(1), R(2)}}
    \cup {[n_qubits |-> 2, min_distance_raises |-> FALSE, min_distance |-> R(2),
           max_radial_distance |-> R(3)]}

\* The drives; one of them has a weighted detuning.
Drives ==
    {[amplitude_max |-> a, detuning_abs_max |-> d, duration |-> t,
      weighted_detunings |-> 0] :
        a \in {Frac(1, 2), R(1), R(2)}, d \in {R(0), R(20)},
        t \in {R(10), R(100)}}
    \cup {[amplitude_max |-> R(1), detuning_abs_max |-> R(0), duration |-> R(10),
           weighted_detunings |-> 1]}

\* The devices: every limit may be missing; the devices that limit the
\* radial distance have a DMM channel.
ProgramDevices ==
    {[specs |-> s, energy_ratio |-> energy_ratio(s),
      dmm_channels |-> IF s.max_radial_distance.none THEN 0 ELSE 1] :
        s \in [max_duration : {None, Some(R(75))},
               max_amplitude : {None, Some(R(1))},
               max_abs_detuning : {None, Some(R(10))},
               min_distance : {None, Some(R(1))},
               max_radial_distance : {None, Some(R(2))}]}

NoRegister ==
    [n_qubits |-> 0, min_distance_raises |-> FALSE, min_distance |-> R(0),
     max_radial_distance |-> R(0)]

NoDriveRead ==
    [amplitude_max |-> R(0), detuning_abs_max |-> R(0), duration |-> R(0),
     weighted_detunings |-> 0]

NoProgramDevice ==
    [specs |-> [max_duration |-> None, max_amplitude |-> None,
                max_abs_detuning |-> None, min_distance |-> None,
                max_radial_distance |-> None],
     energy_ratio |-> None, dmm_channels |-> 0]

NoCompilation == [err |-> "none", pulser |-> {}, sequence |-> NoSequence]

NoPrg ==
    [pc |-> "idle", register |-> NoRegister, drive |-> NoDriveRead,
     device |-> NoProgramDevice, compiled_sequence |-> NoSequence,
     op |-> "none", profile |-> "None", compilation |-> NoCompilation,
     outcomes |-> <<>>, read |-> [err |-> "none", sequence |-> NoSequence]]

\* QuantumProgram(register, drive), and the device it will be compiled to.
QuantumPrograms ==
    {[NoPrg EXCEPT !.pc = "ready", !.register = r, !.drive = d, !.device = v] :
        r \in Registers, d \in Drives, v \in ProgramDevices}

\* A compile_to that stores whatever the compilation left.
compile_to_always(self, profile, compilation) ==
    [self EXCEPT !.compiled_sequence = PulserSequence(profile),
                 !.op = "compile_to", !.profile = profile,
                 !.compilation = compilation,
                 !.outcomes = Append(self.outcomes, compilation.err)]

\* compile_to: self._compiled_sequence is assigned on the last line, after
\* everything that raises.
compile_to(self, profile, compilation) ==
    [self EXCEPT !.compiled_sequence =
                     IF compilation.err = "none" THEN compilation.sequence
                     ELSE self.compiled_sequence,
                 !.op = "compile_to", !.profile = profile,
                 !.compilation = compilation,
                 !.outcomes = Append(self.outcomes, compilation.err)]

\* The property compiled_sequence.
compiled_sequence(self) ==
    IF self.compiled_sequence = NoSequence
    THEN [err |-> "ValueError", sequence |-> NoSequence]
    ELSE [err |-> "none", sequence |-> self.compiled_sequence]

\* program.compile_to(device, profile)
CompileTo ==
    /\ prg.pc = "ready"
    /\ Len(prg.outcomes) < MaxCompiles
    /\ \E profile \in CompilerProfile :
          prg' = compile_to(prg, profile,
                            basic_compilation(prg.register, prg.drive, prg.device, profile))
    /\ UNCHANGED <<convVars, emb, frc, scl, run, drv, gph, rnd, job>>

\* program.compiled_sequence
ReadCompiledSequence ==
    /\ prg.pc = "ready"
    /\ prg' = [prg EXCEPT !.op = "compiled_sequence", !.read = compiled_sequence(prg)]
    /\ UNCHANGED <<convVars, emb, frc, scl, run, drv, gph, rnd, job>>

----------------------------------------------------------------------------
(* Remote jobs: qoolqit/_solvers/backends/remote_backends.py               *)

\* Bound of the number of refreshes of one call of wait.
MaxPolls == 3

\* The statuses of a batch (_convert_status).
BatchStatus == {"PENDING", "RUNNING", "DONE", "CANCELED", "TIMED_OUT", "ERROR", "PAUSED"}

\* The statuses for which status() fetches the batch again.
Unfinished == {"PENDING", "RUNNING", "PAUSED"}

\* The remote batch as wait reads it: batch.status, and of its first job
\* the status and whether job.result is a dict of counts, which it is for a
\* job that is done.
Remote(status, job_status) ==
    [status |-> status, job_status |-> job_status, has_result |-> job_status = "DONE"]

\* What the remote batch may become.
remote_next(batch) ==
    IF batch.status = "PENDING"
    THEN {Remote("RUNNING", "RUNNING"), Remote("PAUSED", "PENDING"),
          Remote("CANCELED", "CANCELED")}
    ELSE IF batch.status = "RUNNING"
    THEN {Remote("DONE", "DONE"), Remote("DONE", "ERROR"), Remote("ERROR", "ERROR"),
          Remote("PAUSED", "PENDING"), Remote("CANCELED", "CANCELED"),
          Remote("TIMED_OUT", "CANCELED")}
    ELSE IF batch.status = "PAUSED"
    THEN {Remote("RUNNING", "RUNNING"), Remote("CANCELED", "CANCELED")}
    ELSE {}

\* RemoteJob(sdk, id): no result, no error, status PENDING; the batch has
\* been submitted.
NoJob ==
    [pc |-> "none", batch |-> Remote("PENDING", "PENDING"), result |-> "None",
     error |-> "None", status |-> "PENDING", op |-> "none", seen |-> "PENDING",
     seen_job |-> "PENDING", raised |-> "none", polls |-> 0]

RemoteJob == [NoJob EXCEPT !.pc = "idle"]

\* _convert_status(status)
convert_status(status) == IF status \in BatchStatus THEN status ELSE "ValueError"

\* status(): the batch is fetched only while the last status is unfinished.
status(self) ==
    [self EXCEPT !.op = "status",
                 !.status = IF self.status \in Unfinished
                            THEN convert_status(self.batch.status)
                            ELSE self.status]

\* The start of wait(): the result or the error of an earlier call, else
\* get_batch.
wait(self) ==
    IF self.result # "None"
    THEN [self EXCEPT !.op = "wait", !.pc = "returned", !.raised = "none", !.polls = 0]
    ELSE IF self.error # "None"
    THEN [self EXCEPT !.op = "wait", !.pc = "raised", !.raised = self.error, !.polls = 0]
    ELSE [self EXCEPT !.op = "wait", !.pc = "sleeping", !.raised = "none", !.polls = 0]

\* A turn of the loop of wait(): sleep, batch.refresh(), continue for a batch
\* that is PENDING or RUNNING, else read the first job.
refreshed(self, batch) ==
    IF batch.status \in {"PENDING", "RUNNING"}
    THEN [self EXCEPT !.op = "refresh", !.polls = self.polls + 1,
                      !.seen = batch.status, !.seen_job = batch.job_status]
    ELSE IF batch.job_status = "ERROR"
    THEN [self EXCEPT !.op = "refresh", !.polls = self.polls + 1,
                      !.seen = batch.status, !.seen_job = batch.job_status,
                      !.error = "Exception", !.raised = "Exception", !.pc = "raised"]
    ELSE IF ~batch.has_result
    THEN [self EXCEPT !.op = "refresh", !.polls = self.polls + 1,
                      !.seen = batch.status, !.seen_job = batch.job_status,
                      !.raised = "AssertionError", !.pc = "raised"]
    ELSE [self EXCEPT !.op = "refresh", !.polls = self.polls + 1,
                      !.seen = batch.status, !.seen_job = batch.job_status,
                      !.result = "Result", !.pc = "returned"]

\* job.wait() is called.
Wait ==
    /\ job.pc \in {"idle", "returned", "raised"}
    /\ job' = wait(job)
    /\ UNCHANGED <<convVars, emb, frc, scl, run, drv, gph, rnd, prg>>

\* One turn of the loop of wait().
Refresh ==
    /\ job.pc = "sleeping"
    /\ job.polls < MaxPolls
    /\ job' = refreshed(job, job.batch)
    /\ UNCHANGED <<convVars, emb, frc, scl, run, drv, gph, rnd, prg>>

\* job.status() is called, between calls of wait.
Status ==
    /\ job.pc \in {"idle", "returned", "raised"}
    /\ job' = status(job)
    /\ UNCHANGED <<convVars, emb, frc, scl, run, drv, gph, rnd, prg>>

\* The remote batch moves on.
RemoteStep ==
    /\ job.pc # "none"
    /\ \E b \in remote_next(job.batch) : job' = [job EXCEPT !.batch = b]
    /\ UNCHANGED <<convVars, emb, frc, scl, run, drv, gph, rnd, prg>>

----------------------------------------------------------------------------
(* Specifications                                                          *)

ConvIdle == conv = NoConv /\ dev = NoDev /\ last = NoLast

\* No graph, no rounding, no program and no job.
LaterIdle == gph = NoGph /\ rnd = NoRnd /\ prg = NoPrg /\ job = NoJob

\* No scale computation, no run and no detuning, and none of the later.
RestIdle == scl = NoScl /\ run = NoRun /\ drv = NoDrv /\ LaterIdle

ConvInit == ConvIdle /\ emb = NoEmb /\ frc = NoFrc /\ RestIdle

\* The operations that take a reference unit, and reset.
NextUnits ==
    \/ FromTime
    \/ FromEnergy
    \/ FromDistance
    \/ NewDevice
    \/ ResetConverter
    \/ SetTimeUnit
    \/ SetEnergyUnit
    \/ SetDistanceUnit

\* All of them, with the constructor and the assignment to factors.
NextConverter ==
    \/ NextUnits
    \/ Construct
    \/ AssignFactors

\* An InteractionEmbedder is called with one of the inputs.
InteractionInit ==
    /\ ConvIdle
    /\ frc = NoFrc
    /\ RestIdle
    /\ emb \in {EmbCall("interaction", d, <<>>) : d \in Inputs}

NextInteractionEmbed == InteractionEmbed

\* A BladeEmbedder is configured with one of the schedules and called with one
\* of the inputs.
BladeInit ==
    /\ ConvIdle
    /\ frc = NoFrc
    /\ RestIdle
    /\ emb \in {EmbCall("blade", d, s) : d \in Inputs, s \in Schedules}

NextBladeEmbed ==
    \/ NewBladeEmbedder
    \/ BladeEmbed

\* A BladeEmbedder is called with one of the inputs and, after it, a
\* cancellation token on which cancellation has or has not been requested.
CancelInit ==
    /\ ConvIdle
    /\ frc = NoFrc
    /\ RestIdle
    /\ emb \in {[EmbCall("blade", d, s) EXCEPT !.token = t] :
                    d \in Inputs, s \in {DefaultDimensions, <<2, 2>>},
                    t \in {"clear", "requested"}}

\* One of the two limiters is called.
ForcesInit ==
    /\ ConvIdle
    /\ emb = NoEmb
    /\ RestIdle
    /\ frc \in DistLimitCalls \cup WeightDiffLimitCalls

NextForces ==
    \/ DistLimit
    \/ WeightDiffLimit

\* A weighted detuning is built, put into a drive and added to a sequence.
DriveInit ==
    /\ ConvIdle
    /\ emb = NoEmb
    /\ frc = NoFrc
    /\ scl = NoScl
    /\ run = NoRun
    /\ LaterIdle
    /\ drv \in DetuningCalls

NextDrive ==
    \/ NewWeightedDetuning
    \/ NewDrive
    \/ AddDetuning

\* An embedding is run.
RunInit ==
    /\ ConvIdle
    /\ emb = NoEmb
    /\ frc = NoFrc
    /\ scl = NoScl
    /\ drv = NoDrv
    /\ LaterIdle
    /\ run \in Runs

NextRun ==
    \/ RunStep
    \/ EndRound

\* The scale is computed for a pair of matrices or for positions, or a
\* calculator is constructed and asked for scale steps.
ScaleInit ==
    /\ ConvIdle
    /\ emb = NoEmb
    /\ frc = NoFrc
    /\ run = NoRun
    /\ drv = NoDrv
    /\ LaterIdle
    /\ scl \in QuboCalls \cup PosCalls \cup CalculatorCalls

NextScale ==
    \/ BestScalingForQubo
    \/ BestScalingForPos
    \/ NewCalculator
    \/ ComputeScalingMinMax

\* A graph is asked for its unit-disk range and given unit-disk edges, or a
\* graph is made from a matrix.
GraphInit ==
    /\ ConvIdle
    /\ emb = NoEmb
    /\ frc = NoFrc
    /\ scl = NoScl
    /\ run = NoRun
    /\ drv = NoDrv
    /\ rnd = NoRnd
    /\ prg = NoPrg
    /\ job = NoJob
    /\ gph \in GraphCalls \cup MatrixCalls

\* round_to_sum is called with a list of values.
RoundInit ==
    /\ ConvIdle
    /\ emb = NoEmb
    /\ frc = NoFrc
    /\ scl = NoScl
    /\ run = NoRun
    /\ drv = NoDrv
    /\ gph = NoGph
    /\ prg = NoPrg
    /\ job = NoJob
    /\ rnd \in RoundCalls

NextRound == RoundToSum

\* A program is created and is about to be compiled to a device.
ProgramInit ==
    /\ ConvIdle
    /\ emb = NoEmb
    /\ frc = NoFrc
    /\ scl = NoScl
    /\ run = NoRun
    /\ drv = NoDrv
    /\ gph = NoGph
    /\ rnd = NoRnd
    /\ job = NoJob
    /\ prg \in QuantumPrograms

NextProgram ==
    \/ CompileTo
    \/ ReadCompiledSequence

\* A batch has been submitted and its RemoteJob created.
JobInit ==
    /\ ConvIdle
    /\ emb = NoEmb
    /\ frc = NoFrc
    /\ scl = NoScl
    /\ run = NoRun
    /\ drv = NoDrv
    /\ gph = NoGph
    /\ rnd = NoRnd
    /\ prg = NoPrg
    /\ job = RemoteJob

NextJob ==
    \/ Wait
    \/ Refresh
    \/ Status
    \/ RemoteStep

NextGraph ==
    \/ UdRadiusRange
    \/ SetUdEdges
    \/ FromMatrix

vars == <<conv, dev, last, emb, frc, scl, run, drv, gph, rnd, prg, job>>

SpecGraph == GraphInit /\ [][NextGraph]_vars

SpecRound == RoundInit /\ [][NextRound]_vars

SpecProgram == ProgramInit /\ [][NextProgram]_vars

SpecJob == JobInit /\ [][NextJob]_vars

SpecUnits == ConvInit /\ [][NextUnits]_vars

SpecConverter == ConvInit /\ [][NextConverter]_vars

SpecInteractionEmbed == InteractionInit /\ [][NextInteractionEmbed]_vars

SpecBladeEmbed == BladeInit /\ [][NextBladeEmbed]_vars

SpecBladeCancel == CancelInit /\ [][NextBladeEmbed]_vars

SpecForces == ForcesInit /\ [][NextForces]_vars

SpecDrive == DriveInit /\ [][NextDrive]_vars

SpecRun == RunInit /\ [][NextRun]_vars

SpecScale == ScaleInit /\ [][NextScale]_vars

----------------------------------------------------------------------------
(* Claims about the unit converter                                         *)

\* |a - b| < 1e-7, decided as x <= (y - 1) \div AbsTolInv for |a - b| = x/y.
Within7(a, b) ==
    LET q == RAbs(RSub(a, b))
    IN  q[1] <= (q[2] - 1) \div AbsTolInv

InvariantsHold(c) ==
    /\ c.distance.kind = "real"
    /\ Within7(RMul(c.time, c.energy), Thousand)
    /\ Within7(RMul(c.energy, Pow6(c.distance)), c.C6)

UnitOps ==
    {"from_time", "from_energy", "from_distance",
     "set_time_unit", "set_energy_unit", "set_distance_unit"}

\* The closed forms of the specification for the reference value v.
ClosedForm(op, C6, v) ==
    IF op \in {"from_time", "set_time_unit"}
    THEN <<v, RDiv(Thousand, v), Root6(RDiv(C6, RDiv(Thousand, v)))>>
    ELSE IF op \in {"from_energy", "set_energy_unit"}
    THEN <<RDiv(Thousand, v), v, Root6(RDiv(C6, v))>>
    ELSE LET E == RDiv(C6, RPow(v, 6))
         IN  <<RDiv(Thousand, E), E, Dist(v)>>

C2_FromDistanceClosedForm ==
    (last.op = "from_distance" /\ RSign(last.arg) > 0)
        => /\ last.err = "none"
           /\ conv = MkConv(last.C6, ClosedForm("from_distance", last.C6, last.arg))

\* C3: after set_time_unit(t), set_energy_unit(e) or set_distance_unit(d) with
\* a positive value the device's factors are the closed form of that value,
\* whatever they were before.
C3_OneDegreeOfFreedom ==
    (last.op \in {"set_time_unit", "set_energy_unit", "set_distance_unit"}
     /\ RSign(last.arg) > 0)
        => factors(dev.converter) = ClosedForm(last.op, dev.C6, last.arg)

DirectOps == {"UnitConverter", "factors"}

\* C4, as claimed: a triple set directly is refused with a ValueError whenever
\* T*E is not within 1e-7 of 1000 or E*D^6 is not within 1e-7 of C6.
C4_RejectsOutsideAbsTol ==
    (/\ last.op \in DirectOps
     /\ Len(last.values) = 3
     /\ \/ ~Within7(RMul(last.values[1], last.values[2]), Thousand)
        \/ ~Within7(RMul(last.values[2], Pow6(last.values[3])), last.C6))
        => last.err = "ValueError"

\* C4, amended: a triple set directly is refused with a ValueError whenever
\* T*E is not within the relative tolerance 1e-9 of 1000, or E*D^6 is not
\* within the relative tolerance 1e-9 of C6.
C4_RejectsOutsideRelTol ==
    (/\ last.op \in DirectOps
     /\ Len(last.values) = 3
     /\ \/ ~isclose(RMul(last.values[1], last.values[2]), Thousand)
        \/ ~isclose(RMul(last.values[2], Pow6(last.values[3])), last.C6))
        => last.err = "ValueError"

\* C4 witness: the assignment of a triple with T*E = 1000 + 2e-6 was refused.
C4_Witness ==
    /\ last.op = "factors"
    /\ last.values = <<R(1), Near(4), Dist(R(1))>>
    /\ last.err = "ValueError"

\* C5: a call of from_time, from_energy, from_distance, set_time_unit,
\* set_energy_unit or set_distance_unit with a zero or negative value raises
\* (ZeroDivisionError for zero; for a negative value the TypeError of the
\* complex sixth root or the ValueError of the invariant check), and neither
\* builds nor changes a converter.
C5_NonPositiveFails ==
    [][(last'.op \in UnitOps /\ RSign(last'.arg) <= 0)
           => /\ last'.err \in {"ZeroDivisionError", "TypeError", "ValueError"}
              /\ conv' = conv
              /\ dev' = dev]_vars

\* C5 witness: set_time_unit with a negative value has raised on a device.
C5_Witness ==
    /\ dev.exists
    /\ last.op = "set_time_unit"
    /\ RSign(last.arg) < 0
    /\ last.err = "TypeError"

----------------------------------------------------------------------------
(* Claims about the matrix embedders                                       *)

\* embed has returned or raised.
Called == emb.pc \in {"done", "raised"}

IsMatrix(data) == data.type = "ndarray" /\ Len(data.shape) = 2

IsSquare(data) == data.shape[1] = data.shape[2]

\* No entry of the square matrix differs from the transposed entry by more
\* than 1e-7.
SymmetricWithinAtol(data) ==
    \A idx \in Indices(data.shape) :
        Abs(data.at[idx] - data.at[<<idx[2], idx[1]>>]) <= Atol

HasNegativeEntry(data) == \E idx \in Indices(data.shape) : data.at[idx] < 0

HasDiagonalMass(data) ==
    \E idx \in Indices(data.shape) : idx[1] = idx[2] /\ data.at[idx] # 0

IsNonIncreasing(s) == \A k \in 1..(Len(s) - 1) : s[k] >= s[k + 1]

EndsAt2(s) == s[Len(s)] = 2

\* C6: the embedding of an array that is not 2-dimensional, not square, or
\* that differs from its transpose by more than 1e-7 in some entry raises an
\* error and produces no coordinates.
C6_RejectsMalformedMatrix ==
    (/\ Called
     /\ emb.data.type = "ndarray"
     /\ \/ Len(emb.data.shape) # 2
        \/ ~IsSquare(emb.data)
        \/ ~SymmetricWithinAtol(emb.data))
        => /\ emb.err # "none"
           /\ ~emb.positions.exists
           /\ ~emb.graph.exists

\* C7, as claimed: a matrix with a negative entry or a non-zero diagonal entry
\* is refused by the validation, before the algorithm is invoked.
C7_RejectsNegativeOrDiagonalMass ==
    (/\ Called
     /\ IsMatrix(emb.data)
     /\ HasNegativeEntry(emb.data) \/ HasDiagonalMass(emb.data))
        => emb.err # "none" /\ ~emb.invoked

\* C7, amended: the validation refuses, before the algorithm is invoked, what
\* is not a numpy array (TypeError), an array that is not 2-dimensional
\* (ValueError) and a square matrix that differs from its transpose by more
\* than 1e-7 (ValueError); it looks at neither the sign of the entries nor the
\* diagonal, and every square matrix that is symmetric within 1e-7 reaches the
\* algorithm.
C7_RejectsTypeRankAsymmetryOnly ==
    Called =>
        /\ emb.data.type # "ndarray" => emb.err = "TypeError" /\ ~emb.invoked
        /\ (emb.data.type = "ndarray" /\ Len(emb.data.shape) # 2)
               => emb.err = "ValueError" /\ ~emb.invoked
        /\ (IsMatrix(emb.data) /\ IsSquare(emb.data))
               => IF SymmetricWithinAtol(emb.data)
                  THEN emb.invoked
                  ELSE emb.err = "ValueError" /\ ~emb.invoked

\* C7 witness: the algorithm was invoked on a 2 x 2 matrix with negative
\* entries and a non-zero diagonal.
C7_Witness ==
    /\ Called
    /\ emb.invoked
    /\ emb.data.shape = <<2, 2>>
    /\ HasNegativeEntry(emb.data)
    /\ HasDiagonalMass(emb.data)

\* C8, as claimed: a schedule that does not end at 2 is refused, and a schedule
\* the algorithm is run with is non-increasing and ends at 2.
C8_AcceptedSchedulesEndAt2 ==
    (emb.kind = "blade" /\ emb.invoked)
        => IsNonIncreasing(emb.dims) /\ EndsAt2(emb.dims)

\* C8, amended: no schedule is refused.  BladeEmbeddingConfig holds the
\* dimensions it is given, whatever they are, and embed invokes the algorithm
\* with them whenever the matrix is square and symmetric within 1e-7; of the
\* default schedule alone it is known that it is non-increasing and ends at 2.
C8_NoScheduleIsRefused ==
    /\ IsNonIncreasing(DefaultDimensions) /\ EndsAt2(DefaultDimensions)
    /\ (emb.kind = "blade" /\ emb.pc # "start")
           => /\ emb.config.dimensions = emb.dims
              /\ (Called /\ IsMatrix(emb.data) /\ IsSquare(emb.data)
                         /\ SymmetricWithinAtol(emb.data))
                     => emb.invoked /\ emb.kwargs = emb.dims

\* C8 witness: the algorithm was invoked with the schedule (2, 2, 3).
C8_Witness ==
    /\ emb.kind = "blade"
    /\ Called
    /\ emb.invoked
    /\ emb.dims = <<2, 2, 3>>

----------------------------------------------------------------------------
(* Claims about the interaction forces                                     *)

OffDiagonal == {p \in Pairs : p[1] # p[2]}

\* s(x) = (1 - sin((1 - |x / tau|) * pi / 2)) * sign(x) * tau
SmoothReduction(x, tau) ==
    RMul(RMul(RSub(R(1), np_sin_half_pi(RSub(R(1), RAbs(RDiv(x, tau))))),
              R(RSign(x))),
         tau)

\* C9: with dW the target weights minus the current weights and
\* tau = theta_w * max|dW|, the limiter replaces dW by s(dW) for a pair with
\* |dW| < tau and keeps dW for a pair with |dW| >= tau.
C9_SmallDifferencesReducedByTau ==
    (frc.kind = "weight_diff_limit" /\ frc.pc = "done")
        => LET dW == [p \in Pairs |-> IF p[1] = p[2] THEN R(0)
                                      ELSE RSub(frc.target_weights[p],
                                                frc.current_weights[p])]
               tau == RMul(frc.weight_relative_threshold, np_max_abs(dW))
           IN  \A p \in OffDiagonal :
                   frc.weight_diff_limit.weight_differences[p]
                       = IF RLt(RAbs(dW[p]), tau) THEN SmoothReduction(dW[p], tau)
                         ELSE dW[p]

\* clip(d, -m, +m)
Clip(d, m) == IF RLt(m, d) THEN m ELSE IF RLt(d, RNeg(m)) THEN RNeg(m) ELSE d

\* The modulated target distance of the claim for the distance dist, the
\* target distance target and the limit m of the walk.
ModulatedTarget(dist, target, m) ==
    LET c == Clip(RDiv(RSub(dist, target), R(2)), m)
        moved == RSub(dist, RMul(R(2), c))
    IN  IF c = R(0) THEN dist
        ELSE IF RSign(c) > 0 THEN RMax2(moved, target)
        ELSE RMin2(moved, target)

\* C10: for every pair, with R* = W^(-1/6), D = (R - R*)/2 and
\* c = clip(D, -D_max, +D_max), the modulated target distance is R where
\* c = 0, max(R - 2c, R*) where c > 0 and min(R - 2c, R*) where c < 0, and the
\* weight returned is that of this distance; so the pair stays at R for
\* D_max = 0 and goes to R* for D_max >= |D|.
C10_ModulatedTargetDistance ==
    (frc.kind = "dist_limit" /\ frc.pc \in {"done", "raised"})
        => \A p \in OffDiagonal :
              LET dist == frc.distance_matrix[p]
                  target == normalized_best_dist(frc.target_weights[p])
                  m == frc.max_distance_to_walk
                  got == frc.dist_limit.rectified[p]
              IN  /\ got = ModulatedTarget(dist, target, m)
                  /\ frc.dist_limit.weights[p] = RDiv(R(1), RPow(got, 6))
                  /\ m = R(0) => got = dist
                  /\ RLe(RAbs(RDiv(RSub(dist, target), R(2))), m) => got = target

\* C10 witness: two nodes at distance 1 whose target distance is 3 were given
\* the modulated target distance 2 by a walk limited to 1/2.
C10_Witness ==
    /\ frc.kind = "dist_limit"
    /\ frc.pc = "done"
    /\ frc.distance_matrix[<<1, 2>>] = R(1)
    /\ frc.target_weights[<<1, 2>>] = Frac(1, 729)
    /\ frc.max_distance_to_walk = Frac(1, 2)
    /\ frc.dist_limit.rectified[<<1, 2>>] = R(2)

----------------------------------------------------------------------------
(* Claims about the scale computation                                      *)

ScalingCalled == scl.kind \in {"qubo", "pos"} /\ scl.pc \in {"done", "raised"}

StepReturned == scl.kind = "calculator" /\ scl.steps > 0 /\ scl.pc = "done"

\* The k-th smallest entry of the vector d.
Smallest(d, k) ==
    CHOOSE v \in {d[j] : j \in 1..Len(d)} :
        /\ Cardinality({j \in 1..Len(d) : RLt(d[j], v)}) < k
        /\ k <= Cardinality({j \in 1..Len(d) : RLe(d[j], v)})

\* The p-th percentile of d: the linear interpolation of the order statistics
\* around the rank 1 + (Len(d) - 1) * p / 100.
Percentile(d, p) ==
    LET h == RMul(R(Len(d) - 1), RDiv(p, R(100)))
        lo == 1 + Floor(h)
        hi == IF lo < Len(d) THEN lo + 1 ELSE lo
    IN  RAdd(Smallest(d, lo),
             RMul(RSub(h, R(lo - 1)), RSub(Smallest(d, hi), Smallest(d, lo))))

RECURSIVE SumTo(_, _)
SumTo(m, f) == IF m = 0 THEN R(0) ELSE RAdd(f[m], SumTo(m - 1, f))

\* The scaling of the claim, by its sixth power: the embedded interactions I
\* and the target W over n nodes, d = I - W, c = max(0, percentile
\* 100 - 20 / (n - 1) of d), each I with d > c replaced by W + c.
Ceiling(W, I, n) ==
    RMax2(R(0), Percentile([k \in 1..Len(W) |-> RSub(I[k], W[k])],
                            RSub(R(100), Frac(20, n - 1))))

Filtered(W, I, n) ==
    [k \in 1..Len(W) |->
        IF RLt(Ceiling(W, I, n), RSub(I[k], W[k])) THEN RAdd(W[k], Ceiling(W, I, n))
        ELSE I[k]]

Alpha6(W, I, n) ==
    RDiv(SumTo(Len(W), [k \in 1..Len(W) |-> RMul(Filtered(W, I, n)[k], Filtered(W, I, n)[k])]),
         SumTo(Len(W), [k \in 1..Len(W) |-> RMul(Filtered(W, I, n)[k], W[k])]))

\* C11: the scaling returned is the sixth root of sum(I^2) / sum(I W) over the
\* pairs i < j, taken after the default filter: with d = I - W and c the larger
\* of 0 and the percentile 100 - 20 / (n - 1) of d, every I with d > c is
\* replaced by W + c and the others are kept.
C11_ScalingAfterFilter ==
    (ScalingCalled /\ scl.pc = "done" /\ scl.filter_differences)
        => LET W == scl.target_interactions.triu
               I == scl.embedded_interactions.triu
               n == scl.target_interactions.n
           IN  /\ scl.best.embedded_interactions_triu = Filtered(W, I, n)
               /\ scl.best.best_scaling = Real6(1, Alpha6(W, I, n))

\* C11 witness: a scaling was returned for which the filter replaced an
\* embedded interaction.
C11_Witness ==
    /\ ScalingCalled
    /\ scl.pc = "done"
    /\ scl.filter_differences
    /\ scl.best.embedded_interactions_triu # scl.embedded_interactions.triu

Degenerate(scaling) == IsNaN(scaling.p6) \/ IsInf(scaling.p6) \/ scaling.sgn <= 0

\* C12: a scaling that comes out NaN, infinite, zero or negative makes the
\* computation fail by assertion, and no such scaling is returned, neither by
\* the computation nor by a scale step.
C12_DegenerateScalingFails ==
    /\ (ScalingCalled /\ scl.target_interactions.n >= 2)
          => /\ Degenerate(scl.best.best_scaling)
                    => (scl.pc = "raised" /\ scl.err = "AssertionError")
             /\ scl.pc = "done" => ~Degenerate(scl.best.best_scaling)
    /\ StepReturned => ~Degenerate(scl.returned[1])

\* C12 witness: the scaling for three nodes at one place, whose interactions
\* are infinite, was refused.
C12_Witness ==
    /\ scl.kind = "pos"
    /\ scl.positions = <<R(0), R(0), R(0)>>
    /\ Degenerate(scl.best.best_scaling)
    /\ scl.pc = "raised"
    /\ scl.err = "AssertionError"

\* C13: for positions whose interactions already equal the target, the
\* scaling is exactly 1, from the computation and from a scale step; so it is
\* for embedded interactions given as a matrix that equal the target over the
\* pairs i < j and are not all 0.
C13_OptimalPositionsScaleByOne ==
    /\ (/\ scl.kind \in {"pos", "calculator"}
        /\ scl.positions # <<>>
        /\ interaction_matrix_from_positions(scl.positions) = scl.target_interactions)
           => /\ (scl.kind = "pos" /\ scl.pc # "start")
                     => (scl.pc = "done" /\ scl.best.best_scaling = Real6(1, R(1)))
              /\ StepReturned => scl.returned[1] = Real6(1, R(1))
    /\ (/\ scl.kind = "qubo"
        /\ scl.pc # "start"
        /\ scl.embedded_interactions.triu = scl.target_interactions.triu
        /\ \E k \in 1..Len(scl.target_interactions.triu) :
               scl.target_interactions.triu[k] # R(0))
           => (scl.pc = "done" /\ scl.best.best_scaling = Real6(1, R(1)))

\* C13 witness: the scaling 1 was returned for three nodes that are not at
\* the coordinates the target was made from but have its interactions.
C13_Witness ==
    /\ scl.kind = "pos"
    /\ scl.pc = "done"
    /\ scl.target_interactions.n = 3
    /\ scl.positions = <<R(2), R(1), R(0)>>
    /\ scl.target_interactions = interaction_matrix_from_positions(<<R(0), R(1), R(2)>>)
    /\ scl.best.best_scaling = Real6(1, R(1))

\* C14: with a band configured (starting ratio r0, final ratio rf, starting
\* minimum), a scale step at the cursor u, 0 <= u <= 1, returns the scaling a,
\* s_min = a * (the current minimum before the step), which becomes the
\* current minimum, and s_max = s_min * (rf + (1 - u) * (r0 - rf)).
C14_BandStep ==
    (StepReturned /\ ~scl.args[3].none)
        => LET u == scl.step_cursor
               rho == RAdd(scl.args[3].v,
                           RMul(RSub(R(1), u), RSub(scl.args[2].v, scl.args[3].v)))
               s_min == Mul6(scl.returned[1], scl.previous_min.v)
           IN  /\ RLe(R(0), u) /\ RLe(u, R(1))
               /\ ~scl.args[2].none /\ ~scl.previous_min.none
               /\ scl.returned[2] = Some(s_min)
               /\ scl.returned[3] = Some(Mul6(s_min, Dist(rho)))
               /\ scl.calculator.current_min = Some(s_min)

\* C14 witness: a second step at the cursor 1/2, with the ratios 4 and 2, of
\* a calculator whose first step had changed the minimum.
C14_Witness ==
    /\ StepReturned
    /\ scl.steps = 2
    /\ scl.args = <<Some(Dist(R(1))), Some(R(4)), Some(R(2))>>
    /\ scl.step_cursor = Frac(1, 2)
    /\ scl.previous_min # scl.args[1]
    /\ scl.returned[1] # Real6(1, R(1))
    /\ scl.returned[3] = Some(Mul6(scl.returned[2].v, Dist(R(3))))

\* C15: a calculator constructed without a final ratio holds no starting
\* ratio, whatever it was given, and no current minimum, and each of its
\* scale steps returns None for s_min and for s_max.
C15_NoBandWithoutFinalRatio ==
    (scl.kind = "calculator" /\ scl.args[3].none /\ scl.pc # "start")
        => /\ scl.calculator.exists
           /\ scl.calculator.starting_ratio.none
           /\ scl.calculator.current_min.none
           /\ StepReturned => (scl.returned[2].none /\ scl.returned[3].none)

\* C15 witness: a step of a calculator that was given a starting minimum and
\* a starting ratio but no final ratio has returned.
C15_Witness ==
    /\ StepReturned
    /\ scl.args = <<Some(Dist(R(1))), Some(R(2)), None>>
    /\ ~Degenerate(scl.returned[1])
    /\ scl.returned[2].none
    /\ scl.returned[3].none

----------------------------------------------------------------------------
(* Claims about the returned force vectors                                 *)

\* C16: the weighted vectors that the weight-difference limiter returns, which
\* compute_interaction_forces returns as the force vectors, hold no NaN and no
\* infinity: where one would, the call fails by assertion.
C16_ReturnedVectorsAreFinite ==
    (frc.kind = "weight_diff_limit" /\ frc.pc = "done")
        => \A p \in Pairs : IsFinite(frc.weight_diff_limit.weighted_vectors[p])

----------------------------------------------------------------------------
(* Claims about the embedding run                                          *)

\* C17: a run with a schedule of K dimensions and S steps per round has made
\* exactly K * S steps when it returns, never more on its way, and it does
\* not stop before: until it returns, a step or an end of round is due.
C17_ExactlyKTimesSSteps ==
    LET K == Len(run.dimensions)
        S == run.steps_per_round
    IN  /\ run.pc = "done" => run.steps = K * S
        /\ run.pc = "running" =>
              /\ run.steps = (run.k - 1) * S + run.s
              /\ run.k \in 1..K
              /\ run.s \in 0..S

\* C17 witness: the run of the default configuration, six rounds of 200
\* steps, has returned after 1200 steps.
C17_Witness ==
    /\ run.pc = "done"
    /\ run.dimensions = DefaultDimensions
    /\ run.steps_per_round = DefaultStepsPerRound
    /\ run.steps = 1200

----------------------------------------------------------------------------
(* Claims about cancellation                                               *)

\* C18 as stated: embed accepts a cancellation token, and a call on whose
\* token cancellation has been requested returns positions.
C18_CancelledRunReturnsPositions ==
    (emb.token = "requested" /\ Called) => (emb.pc = "done" /\ emb.positions.exists)

\* C18 amended: embed takes the matrix alone; a call that passes a
\* cancellation token, requested or not, raises TypeError, and neither the
\* validation nor the algorithm is run.
C18_TokenIsRefused ==
    (emb.token # "none" /\ Called)
        => /\ emb.pc = "raised"
           /\ emb.err = "TypeError"
           /\ ~emb.invoked
           /\ ~emb.positions.exists

\* C18 witness: embed was called with a symmetric matrix and a token on which
\* cancellation has been requested, and raised TypeError.
C18_Witness ==
    /\ emb.token = "requested"
    /\ validate_input(emb.data) = "none"
    /\ emb.pc = "raised"
    /\ emb.err = "TypeError"

----------------------------------------------------------------------------
(* Claims about reset_converter                                            *)

\* C19: after any sequence of set_time_unit, set_energy_unit and
\* set_distance_unit calls on a device, reset_converter succeeds and leaves
\* the device with the factors (T, E, D) it had when it was constructed.
C19_ResetRestoresInitialFactors ==
    last.op = "reset_converter"
        => /\ last.err = "none"
           /\ factors(dev.converter) = dev.initial

\* C19 witness: reset_converter was called on a device whose factors were no
\* longer those of its construction, and has restored them.
C19_Witness ==
    /\ last.op = "reset_converter"
    /\ last.values # dev.initial
    /\ factors(dev.converter) = dev.initial

----------------------------------------------------------------------------
(* Claims about weighted detunings                                         *)

HasPositiveWeight(weights) == \E kv \in weights : RLt(R(0), kv[2])

\* C20 as stated: every weighted detuning holds only weights <= 0, and one
\* with a positive weight is neither accepted into a drive nor compiled.
C20_OnlyNonPositiveWeights ==
    /\ ~HasPositiveWeight(drv.detuning.weights)
    /\ \A i \in 1..Len(drv.weighted_detunings) :
          ~HasPositiveWeight(drv.weighted_detunings[i].weights)
    /\ ~HasPositiveWeight(drv.detuning_weights)

\* C20 amended: a weighted detuning holds the weights it is given, positive
\* ones included; a drive accepts it as it is, and add_detuning hands every
\* weight unchanged, under the str of its key, to the detuning map.
C20_WeightsKeptAsGiven ==
    /\ drv.pc \in {"detuning", "drive", "compiled"} => drv.detuning.weights = drv.weights
    /\ drv.pc \in {"drive", "compiled"} =>
          /\ Len(drv.weighted_detunings) = 1
          /\ drv.weighted_detunings[1].weights = drv.weights
    /\ drv.pc = "compiled" =>
          /\ \A kv \in drv.weights :
                \E cw \in drv.detuning_weights :
                    /\ cw[2] = kv[2]
                    /\ cw[1].type = "str"
                    /\ cw[1].digits = kv[1].digits
          /\ Cardinality(drv.detuning_weights) <= Cardinality(drv.weights)

\* C20 witness: the detuning of test_drive, WeightedDetuning(weights={0: 1}),
\* is in a drive and its weight 1 has reached the detuning map of qubit "0".
C20_Witness ==
    /\ drv.pc = "compiled"
    /\ drv.weights = {<<[type |-> "int", digits |-> "0"], R(1)>>}
    /\ drv.detuning_weights = {<<[type |-> "str", digits |-> "0"], R(1)>>}

----------------------------------------------------------------------------
(* Claims about the limiter as a reduction                                 *)

\* C25: for every pair, the difference the weight-difference limiter leaves
\* has the sign of the original difference dW and a magnitude of at most
\* |dW|.
C25_LimiterIsReduction ==
    (frc.kind = "weight_diff_limit" /\ frc.pc = "done")
        => \A p \in OffDiagonal :
              LET dW == RSub(frc.target_weights[p], frc.current_weights[p])
                  left == frc.weight_diff_limit.weight_differences[p]
              IN  /\ RSign(left) = RSign(dW)
                  /\ RLe(RAbs(left), RAbs(dW))

----------------------------------------------------------------------------
(* Claims about the current minimum of a calculator                        *)

\* The product of the scalings a, times x.
RECURSIVE Scaled6(_, _)
Scaled6(x, a) == IF a = <<>> THEN x ELSE Scaled6(Mul6(x, Head(a)), Tail(a))

\* C26: with a band configured, after the steps so far the current minimum
\* of the calculator is starting_min times the product of the scalings those
\* steps returned, and the s_min a step returns is the current minimum
\* stored after it.
C26_CurrentMinIsProduct ==
    (scl.kind = "calculator" /\ scl.calculator.exists /\ ~scl.args[3].none)
        => /\ ~scl.args[1].none
           /\ scl.calculator.current_min = Some(Scaled6(scl.args[1].v, scl.scalings))
           /\ StepReturned => scl.returned[2] = scl.calculator.current_min

\* C26 witness: two steps have returned different scalings, the first other
\* than 1, and the current minimum is the starting one times both.
C26_Witness ==
    /\ scl.kind = "calculator"
    /\ StepReturned
    /\ ~scl.args[3].none
    /\ Len(scl.scalings) = 2
    /\ scl.scalings[1] # Real6(1, R(1))
    /\ scl.scalings[2] # scl.scalings[1]
    /\ scl.calculator.current_min = Some(Scaled6(scl.args[1].v, scl.scalings))

----------------------------------------------------------------------------
(* Claims about a rejected assignment to factors                           *)

\* C27: an assignment to a converter's factors that is rejected, because the
\* value has not 3 elements or because the triple violates an invariant,
\* leaves the converter's time, energy and distance as they were; so does a
\* unit setter of a device, which assigns to the factors of its converter.
C27_RejectedAssignmentKeepsFactors ==
    [][/\ (last'.op = "factors" /\ last'.err # "none")
              => (conv'.time = conv.time /\ conv'.energy = conv.energy
                    /\ conv'.distance = conv.distance)
       /\ (last'.op \in {"set_time_unit", "set_energy_unit", "set_distance_unit"}
             /\ last'.err # "none")
              => factors(dev'.converter) = factors(dev.converter)]_vars

\* C27 witness: the triple (2, 2, 1), whose time-energy product is not 1000,
\* was assigned to a converter, which has other factors.
C27_Witness ==
    /\ conv.exists
    /\ last.op = "factors"
    /\ last.values = <<R(2), R(2), Dist(R(1))>>
    /\ last.err = "ValueError"
    /\ conv.time # R(2)

----------------------------------------------------------------------------
(* Claims about graphs                                                     *)

\* C21: for a graph with coordinates that is unit-disk, with the range
\* (R_min, R_max) that ud_radius_range returned, every radius R with
\* R_min <= R <= R_max gives ud_edges(R) = sorted_edges, and set_ud_edges(R)
\* gives the graph its original edges, also when the call before had left
\* it without edges.
C21_RangeGivesOriginalEdges ==
    (/\ gph.kind = "graph"
     /\ gph.ranged
     /\ gph.op = "set_ud_edges"
     /\ RLe(gph.range[1], gph.radius)
     /\ RLe(gph.radius, gph.range[2]))
        => /\ ud_edges(gph.original, gph.radius).edges = gph.original.edges
           /\ gph.pc = "set"
           /\ gph.graph.edges = gph.original.edges

\* C29: set_ud_edges on a graph without coordinates raises and leaves the
\* edges of the graph, and the edge weights of a DataGraph, as they were
\* before the call.
C29_NoCoordsKeepsEdges ==
    (gph.kind = "graph" /\ gph.op = "set_ud_edges" /\ ~has_coords(gph.before))
        => /\ gph.pc = "raised"
           /\ gph.graph.edges = gph.before.edges
           /\ gph.graph.edge_weights = gph.before.edge_weights

\* C30: after DataGraph.from_matrix, whether it returned or raised, every
\* entry of the caller's array is what it was before the call.
C30_FromMatrixKeepsArray ==
    (gph.kind = "from_matrix" /\ gph.pc \in {"done", "raised"})
        => gph.array = gph.data

\* The array is 2-D and equal to its transpose within 1e-7.
PassesChecks(data) ==
    /\ data.type = "ndarray"
    /\ Len(data.shape) = 2
    /\ allclose(data, transpose(data)).err = "none"
    /\ allclose(data, transpose(data)).all

\* C30, amended: from_matrix leaves the caller's array as it was when it
\* rejects it (not 2-D, or not symmetric); once the array has passed these
\* checks, every entry that is at most 1e-7 is 0 in the caller's array after
\* the call and every other entry is what it was, whether the call then
\* returns or raises.
C30_FromMatrixZeroesSmallEntries ==
    (gph.kind = "from_matrix" /\ gph.pc \in {"done", "raised"})
        => IF PassesChecks(gph.data)
           THEN /\ gph.array.shape = gph.data.shape
                /\ \A idx \in Indices(gph.data.shape) :
                       gph.array.at[idx] = IF gph.data.at[idx] <= Atol THEN 0
                                           ELSE gph.data.at[idx]
           ELSE gph.pc = "raised" /\ gph.array = gph.data

\* C30 witness: from_matrix returned a graph for the symmetric matrix with
\* the diagonal 1 and -1 elsewhere, and the caller's array holds 0 where it
\* held -1.
C30_Witness ==
    /\ gph.kind = "from_matrix"
    /\ gph.pc = "done"
    /\ gph.data = Matrix(<<2, 2>>, One, -One, <<1, 1>>, 0)
    /\ gph.array = Matrix(<<2, 2>>, One, 0, <<1, 1>>, 0)
    /\ gph.graph.edges = {}

----------------------------------------------------------------------------
(* Claims about round_to_sum                                               *)

\* The whole number nearest to x, the even one of the two when x is halfway
\* between two.
Nearest(x) ==
    CHOOSE n \in {Floor(x), Floor(x) + 1} :
        LET m == 2 * Floor(x) + 1 - n
        IN  \/ RLt(RAbs(RSub(x, R(n))), RAbs(RSub(x, R(m))))
            \/ RAbs(RSub(x, R(n))) = RAbs(RSub(x, R(m))) /\ n % 2 = 0

RECURSIVE Total(_)
Total(a) == IF a = <<>> THEN 0 ELSE Head(a) + Total(Tail(a))

RECURSIVE TotalOf(_)
TotalOf(a) == IF a = <<>> THEN R(0) ELSE RAdd(Head(a), TotalOf(Tail(a)))

\* C22: for every list of values, round_to_sum returns a list of whole
\* numbers of the same length whose sum is round(sum(values)).
C22_RoundedSumIsRoundOfSum ==
    rnd.pc \in {"done", "raised"}
        => /\ rnd.pc = "done"
           /\ Len(rnd.returned) = Len(rnd.values)
           /\ Total(rnd.returned) = Nearest(TotalOf(rnd.values))

----------------------------------------------------------------------------
(* Claims about quantum programs                                           *)

\* A call of compile_to on the program has returned.
HasCompiled == \E k \in 1..Len(prg.outcomes) : prg.outcomes[k] = "none"

\* C23: a program is uncompiled when created: reading compiled_sequence
\* raises ValueError as long as no compile_to has returned, whether none was
\* called or the calls raised, and after a compile_to that returned the read
\* returns a sequence, the one of that call when it was the last call.
C23_UncompiledUntilCompileToReturns ==
    prg.op = "compiled_sequence"
        => IF HasCompiled
           THEN /\ prg.read.err = "none"
                /\ prg.read.sequence # NoSequence
                /\ prg.compilation.err = "none"
                      => prg.read.sequence = prg.compilation.sequence
           ELSE prg.read = [err |-> "ValueError", sequence |-> NoSequence]

\* compiled_sequence is read after a compile_to that raised and a second one
\* that returned.
C23_Witness ==
    /\ prg.op = "compiled_sequence"
    /\ Len(prg.outcomes) = 2
    /\ prg.outcomes[1] = "CompilationError"
    /\ prg.outcomes[2] = "none"
    /\ prg.read.err = "none"

\* The program rescaled by the factors f breaks a limit of the device.
Violates(register, drive, specs, f) ==
    \/ ~specs.max_amplitude.none
          /\ RLt(specs.max_amplitude.v, RMul(drive.amplitude_max, f.ENERGY))
    \/ ~specs.max_abs_detuning.none
          /\ RLt(specs.max_abs_detuning.v, RMul(drive.detuning_abs_max, f.ENERGY))
    \/ ~specs.max_duration.none
          /\ RLt(specs.max_duration.v, RMul(drive.duration, f.TIME))
    \/ /\ register.n_qubits > 1
       /\ ~specs.min_distance.none
       /\ RLt(RMul(RPow(register.min_distance, 6), f.DISTANCE6),
              RPow(specs.min_distance.v, 6))
    \/ ~specs.max_radial_distance.none
          /\ RLt(RPow(specs.max_radial_distance.v, 6),
                 RMul(RPow(register.max_radial_distance, 6), f.DISTANCE6))

\* The program of prg breaks a limit of its device under the factors of the
\* profile.
ViolatesUnder(profile) ==
    /\ profile_factors(prg.register, prg.drive, prg.device.specs, profile).err = "none"
    /\ Violates(prg.register, prg.drive, prg.device.specs,
                profile_factors(prg.register, prg.drive, prg.device.specs, profile))

\* The compilation has raised CompilationError with no Pulser object built.
RefusedUnbuilt ==
    /\ prg.compilation.err = "CompilationError"
    /\ prg.compilation.pulser = {}

ValidatedProfile ==
    fallback(RMul(prg.drive.amplitude_max, RPow(prg.register.min_distance, 6)),
             prg.device.energy_ratio, prg.profile)

----------------------------------------------------------------------------
(* Claims about remote jobs                                                *)

\* C28: wait keeps polling while the remote batch is in an unfinished state
\* (PENDING, RUNNING or PAUSED), returns a Result only for a batch that is
\* DONE, and raises when the job ended in ERROR.
C28_WaitPollsUntilFinished ==
    job.op = "refresh"
        => /\ job.seen \in Unfinished => job.pc = "sleeping"
           /\ job.pc = "returned" => job.seen = "DONE" /\ job.result = "Result"
           /\ (job.seen \notin Unfinished /\ job.seen_job = "ERROR")
                 => job.pc = "raised" /\ job.raised = "Exception"

=============================================================================
